---- MODULE Spec2Model ----
(***************************************************************************)
(* Best-product selection pipeline of geospatial_tools:                    *)
(*   StacSearch (stac.py)              retried catalog search, sort/filter *)
(*   sentinel_2_complete_tile_search   one tile search -> outcome tuple    *)
(*   find_best_product_per_s2_tile     thread pool + three outcome buckets *)
(*   _get_best_product_id_for_each_grid_tile  product propagation          *)
(*   spatial_join_within (vector.py)   fine polygons -> covering tiles     *)
(*   create_vector_grid (vector.py)    half-open grid of square cells      *)
(*   create_vector_grid_parallel       the same grid, built in chunks      *)
(*   select_polygons_by_location       chunked spatial join                *)
(*   create_date_range_for_specific_period (utils.py)   yearly date ranges *)
(*   assert_dataset_time_dim_is_valid (radar/nimrod.py) 5-minute time axis *)
(*   clip_raster_with_polygon (raster.py)   one retried clip per polygon   *)
(*   BestProductsForFeatures.find_best_complete_products   thresholds      *)
(* The repository holds two revisions of planetary_computer/sentinel_2.py: *)
(* the current one builds a StacSearch per tile search, the legacy one     *)
(* hands the one StacSearch of BestProductsForFeatures to every search.    *)
(***************************************************************************)
EXTENDS Integers, Sequences, FiniteSets, TLC

\* ---------------------------------------------------------------- bounds
MaxTiles == 2        \* longest s2_tile_grid_list
MaxRanges == 2       \* longest date_ranges list
MaxWorkers == 2      \* largest num_of_workers handed to the resolver
MaxFailures == 3     \* catalog queries that raise APIError, over one run
MaxLen == 3          \* longest candidate list drawn for the selection rule
MaxCover == 2        \* most tiles covering one fine polygon
MaxPolygons == 2     \* most rows of the spatial join result
MaxCoord == 4        \* largest corner coordinate of a bounding box
MaxSize == 3         \* largest grid_size
MaxCpus == 2         \* largest cpu_count()
MaxSpan == 2         \* most years between start_year and end_year
MaxAxis == 3         \* most timestamps on a time axis
MaxStamp == 10       \* latest timestamp, in minutes
MaxClips == 2        \* most polygons in a layer to clip with
MaxFailing == 3      \* most attempts that fail for one polygon
MaxCalls == 4        \* most calls made on one StacSearch

\* ------------------------------------------------------ program constants
max_retries == 3         \* StacSearch.search_for_date_ranges(max_retries=3)
max_no_data_value == 5   \* sentinel_2_complete_tile_search(max_no_data_value=5)

None == "None"
Tiles == {"T1", "T2", "T3"}
SharedClient == "search_client"
ClientIds == Tiles \cup {SharedClient}

ErrorNoResults == "error: No results found"
IncompleteNoCover == "incomplete: No results found that cover the entire tile"

\* A pystac.Item as far as the code reads it: id, properties["eo:cloud_cover"],
\* properties["s2:nodata_pixel_percentage"].
Item(i, c, n) == [id |-> i, cc |-> c, nd |-> n]

\* What catalog.search(...).items() yields for the query of tile t and the
\* d-th date range: the query filters on s2:mgrs_tile, so every item of the
\* answer is a product of tile t.
Catalog(t, d) ==
    CASE t = "T1" /\ d = 1 -> << Item("T1_a", 2, 1) >>
      [] t = "T1" /\ d = 2 -> << Item("T1_b", 1, 9), Item("T1_c", 2, 0) >>
      [] t = "T2" /\ d = 1 -> << Item("T2_a", 3, 5) >>
      [] t = "T2" /\ d = 2 -> << Item("T2_b", 1, 7) >>
      [] OTHER -> << >>

TileOf(id) ==
    CASE id \in {"T1_a", "T1_b", "T1_c", "T1_d", "T1_e"} -> "T1"
      [] id \in {"T2_a", "T2_b"} -> "T2"
      [] OTHER -> None

\* ------------------------------------------------------- pure operators
\* Python truthiness of a list-or-None value. The code tests such values
\* only with "if x" / "if not x", so None and [] are both written << >>.
Truthy(list) == list # << >>

\* sorted(search_results, key=cloud cover): ascending and stable. The item at
\* position i goes behind every item of less cloud cover and behind the items
\* of equal cloud cover that stood before it.
sorted(list) ==
    LET n == Len(list)
        place(i) == 1 + Cardinality({ j \in 1..n :
                                        \/ list[j].cc < list[i].cc
                                        \/ list[j].cc = list[i].cc /\ j < i })
    IN  [ k \in 1..n |-> list[CHOOSE i \in 1..n : place(i) = k] ]

\* Mutant of NoDataBelow: the comparison lets the threshold itself through.
NoDataAtMost(item, max) == item.nd <= max

\* item.properties[property_name] < max_no_data_value
NoDataBelow(item, max) == item.nd < max

\* [item for item in sorted_results if item.properties[name] < max]
FilterItems(list, max) == SelectSeq(list, LAMBDA item : NoDataBelow(item, max))

\* results.extend(items) for the date ranges 1..k of one attempt
RECURSIVE Batches(_, _)
Batches(t, k) == IF k = 0 THEN << >> ELSE Batches(t, k - 1) \o Catalog(t, k)

\* ------------------------------------------------------------- state
VARIABLES
    revision,            \* "current" | "legacy" sentinel_2.py
    s2_tile_grid_list,   \* input: the tile ids
    date_ranges,         \* input: the date ranges (their positions 1..n)
    num_of_workers,      \* input: ThreadPoolExecutor(max_workers=...)
    search,              \* per tile: the frame of sentinel_2_complete_tile_search
    client,              \* per StacSearch instance: its result fields
    future,              \* per tile: state and result of its future
    main_pc,             \* find_best_product_per_s2_tile: where the caller is
    yielded,             \* futures as_completed has handed to the loop
    successful_results,  \* tile -> "" or {"id", "cloud_cover", "no_data"}
    incomplete_results,
    error_results,
    returned,            \* the returned triple, once main_pc = "returned"
    failures,            \* APIErrors raised so far
    spatial_join_results,\* rows of the joined frame: s2_tiles, best_s2_product_id
    write_pc,            \* write_best_product_ids_to_dataframe: "ready" | "done" | "raised"
    vector_features,     \* spatial_join_within: the caller's frame of fine polygons
    polygon_features,    \* spatial_join_within: the caller's frame of coarse polygons
    predicate,           \* spatial_join_within: "within" | "intersects"
    features,            \* spatial_join_within: the returned frame
    join_pc,             \* spatial_join_within: "idle" | "ready" | "done"
    bounding_box,        \* create_vector_grid: (min_lon, min_lat, max_lon, max_lat)
    grid_size,           \* create_vector_grid: the cell size
    grid,                \* create_vector_grid: the polygons of the returned grid
    grid_pc,             \* create_vector_grid(_parallel): "idle" | "ready" | "mapping" | "done" | an error
    grid_workers,        \* create_vector_grid_parallel: num_of_workers, 0 for None
    cpus,                \* create_vector_grid_parallel: what cpu_count() returns
    chunks,              \* create_vector_grid_parallel: the coordinate chunks
    chunk_results,       \* create_vector_grid_parallel: per chunk, its state and polygons
    polygons,            \* create_vector_grid_parallel: the list the results extend
    period,              \* create_date_range_for_specific_period: its four arguments
    period_ranges,       \* create_date_range_for_specific_period: the returned list
    period_pc,           \* create_date_range_for_specific_period: "idle" | "ready" | "done"
    time_dimension,      \* assert_dataset_time_dim_is_valid: dataset["time"], in minutes
    time_outcome,        \* assert_dataset_time_dim_is_valid: "idle" | "ready" | how it ended
    clip_args,           \* clip_raster_with_polygon: the raster, the layer, the workers
    clip_futures,        \* clip_raster_with_polygon: one _clip_process task per polygon
    clip_results,        \* clip_raster_with_polygon: results, in as_completed order
    path_list,           \* clip_raster_with_polygon: the returned list
    clip_pc,             \* clip_raster_with_polygon: "idle" | "ready" | "clipping" | "done"
    location_args,       \* select_polygons_by_location: features, workers asked for, cpus
    location_workers,    \* select_polygons_by_location: workers the join runs with, 0 if none
    location_chunks,     \* multiprocessor_spatial_join: select_features_from_chunks
    location_joined,     \* multiprocessor_spatial_join: sjoin result of each chunk
    location_result,     \* select_polygons_by_location: the returned frame
    location_pc,         \* "idle" | "ready" | "joining" | "done" | the exception raised
    stac_call,           \* one StacSearch used directly: the last call and what it gave
    stac_calls,          \* one StacSearch used directly: the number of calls made
    products,            \* BestProductsForFeatures: _max_cloud_cover, max_no_data_value
    products_call        \* find_best_complete_products: arguments, thresholds per tile search

vars == << revision, s2_tile_grid_list, date_ranges, num_of_workers, search, client,
           future, main_pc, yielded, successful_results, incomplete_results,
           error_results, returned, failures, spatial_join_results, write_pc,
           vector_features, polygon_features, predicate, features, join_pc,
           bounding_box, grid_size, grid, grid_pc,
           grid_workers, cpus, chunks, chunk_results, polygons,
           period, period_ranges, period_pc, time_dimension, time_outcome,
           clip_args, clip_futures, clip_results, path_list, clip_pc,
           location_args, location_workers, location_chunks, location_joined,
           location_result, location_pc, stac_call, stac_calls, products, products_call >>

join_vars == << vector_features, polygon_features, predicate, features, join_pc >>
parallel_vars == << grid_workers, cpus, chunks, chunk_results, polygons >>
grid_vars == << bounding_box, grid_size, grid, grid_pc, parallel_vars >>

period_vars == << period, period_ranges, period_pc >>

\* The state of the functions that stand apart from the pipeline.
time_vars == << time_dimension, time_outcome >>

clip_vars == << clip_args, clip_futures, clip_results, path_list, clip_pc >>

location_vars == << location_args, location_workers, location_chunks, location_joined,
                    location_result, location_pc >>

stac_vars == << stac_call, stac_calls >>

products_vars == << products, products_call >>

aux_vars == << period_vars, time_vars, clip_vars, location_vars, stac_vars, products_vars >>

frame_vars == << spatial_join_results, write_pc, join_vars, grid_vars, aux_vars >>

inputs == << revision, s2_tile_grid_list, date_ranges, num_of_workers >>
buckets == << successful_results, incomplete_results, error_results >>

Range(list) == { list[i] : i \in DOMAIN list }

\* Lists of pairwise distinct elements of S, of length at most n.
DistinctSeqs(S, n) ==
    UNION { { q \in [1..k -> S] : \A i, j \in 1..k : i # j => q[i] # q[j] } : k \in 0..n }

TileRank(t) == CASE t = "T1" -> 1 [] t = "T2" -> 2 [] OTHER -> 3

\* The tile lists handed to the resolver: pairwise distinct tile names, in
\* the order of the tiling grid or in the reverse order.
TileLists ==
    { q \in DistinctSeqs(Tiles, MaxTiles) :
        \/ \A i, j \in DOMAIN q : i < j => TileRank(q[i]) < TileRank(q[j])
        \/ \A i, j \in DOMAIN q : i < j => TileRank(q[i]) > TileRank(q[j]) }

NewFrame ==
    [ pc |-> "idle", attempt |-> 0, results |-> << >>, sorted_items |-> << >>,
      queries |-> 0, passes |-> 0, raises |-> 0, sleeps |-> 0 ]

\* StacSearch.__init__
NewClient ==
    [ search_results |-> << >>, cloud_cover_sorted_results |-> << >>,
      filtered_results |-> << >> ]

\* None in the cloud_cover / no_data slot of a returned tuple.
NoneFloat == -1

NoResult == [ tile_id |-> None, id |-> None, cloud_cover |-> NoneFloat, no_data |-> NoneFloat ]

\* successful_results[tile] = "": the placeholder of a tile not (yet) found.
Blank == [ id |-> "", cloud_cover |-> NoneFloat, no_data |-> NoneFloat ]

\* The StacSearch a tile search works on: its own (current revision:
\* client = StacSearch(PLANETARY_COMPUTER)) or the caller's (legacy revision:
\* search_client=self.search_client).
ClientOf(t) == IF revision = "legacy" THEN SharedClient ELSE t

\* A frame: its column names in order and its rows, each a function from the
\* column names to the row's values.
Frame(columns, rows) == [ columns |-> columns, rows |-> rows ]

\* No call of spatial_join_within is in progress.
JoinIdle ==
    /\ vector_features = Frame(<< >>, << >>)
    /\ polygon_features = Frame(<< >>, << >>)
    /\ predicate = "within"
    /\ features = Frame(<< >>, << >>)
    /\ join_pc = "idle"

\* No call of create_vector_grid_parallel is in progress.
ParallelIdle ==
    /\ grid_workers = 0
    /\ cpus = 1
    /\ chunks = << >>
    /\ chunk_results = << >>
    /\ polygons = << >>

\* No call of create_vector_grid is in progress.
GridIdle ==
    /\ ParallelIdle
    /\ bounding_box = << 0, 0, 0, 0 >>
    /\ grid_size = 1
    /\ grid = Frame(<< >>, << >>)
    /\ grid_pc = "idle"

\* No call of create_date_range_for_specific_period is in progress.
PeriodIdle ==
    /\ period = [ start_year |-> 1, end_year |-> 1, start_month_range |-> 1,
                  end_month_range |-> 1 ]
    /\ period_ranges = << >>
    /\ period_pc = "idle"

\* Every function that stands apart from the pipeline is idle, but the one named.
\* No call of assert_dataset_time_dim_is_valid is in progress.
TimeIdle ==
    /\ time_dimension = << >>
    /\ time_outcome = "idle"

\* No call of clip_raster_with_polygon is in progress.
ClipIdle ==
    /\ clip_args = [ raster_exists |-> FALSE, failing_attempts |-> << >>,
                     num_of_workers |-> 0, cpu_count |-> 1 ]
    /\ clip_futures = << >>
    /\ clip_results = << >>
    /\ path_list = << >>
    /\ clip_pc = "idle"

\* No call of select_polygons_by_location is in progress.
LocationIdle ==
    /\ location_args = [ select_features_from |-> << >>, intersecting |-> {},
                         num_of_workers |-> 0, cpu_count |-> 1 ]
    /\ location_workers = 0
    /\ location_chunks = << >>
    /\ location_joined = << >>
    /\ location_result = << >>
    /\ location_pc = "idle"

\* No method of a StacSearch has been called from outside the pipeline.
StacIdle ==
    /\ stac_call = [ name |-> "none", returned |-> << >>, raised |-> FALSE ]
    /\ stac_calls = 0

\* find_best_complete_products has not been called.
NoCall ==
    [ called |-> FALSE, max_cloud_cover |-> NoneFloat, max_no_data_value |-> NoneFloat,
      searches |-> << >> ]

\* No BestProductsForFeatures is being configured or called.
ProductsIdle ==
    /\ products = [ max_cloud_cover |-> 5, max_no_data_value |-> 5 ]
    /\ products_call = NoCall

AuxIdleExcept(called) ==
    /\ (called = "period" \/ PeriodIdle)
    /\ (called = "time" \/ TimeIdle)
    /\ (called = "clip" \/ ClipIdle)
    /\ (called = "location" \/ LocationIdle)
    /\ (called = "stac" \/ StacIdle)
    /\ (called = "products" \/ ProductsIdle)

AuxIdle == AuxIdleExcept("none")

InitState(rev, tiles, ranges, workers) ==
    /\ revision = rev
    /\ s2_tile_grid_list = tiles
    /\ date_ranges = ranges
    /\ num_of_workers = workers
    /\ search = [ t \in Tiles |-> NewFrame ]
    /\ client = [ c \in ClientIds |-> NewClient ]
    /\ future = [ t \in Tiles |-> [ state |-> "none", result |-> NoResult ] ]
    /\ main_pc = "start"
    /\ yielded = {}
    /\ successful_results = << >>
    /\ incomplete_results = << >>
    /\ error_results = << >>
    /\ returned = [ successful |-> << >>, incomplete |-> << >>, error |-> << >> ]
    /\ failures = 0
    /\ spatial_join_results = << >>
    /\ write_pc = "ready"
    /\ JoinIdle
    /\ AuxIdle
    /\ GridIdle

Init ==
    \E tiles \in TileLists, n \in 1..MaxRanges, w \in 1..MaxWorkers :
        InitState("current", tiles, [ i \in 1..n |-> i ], w)

\* ------------------------------------------------ find_best_product_per_s2_tile
Running == { t \in Tiles : future[t].state = "running" }

\* successful_results[tile] = "" for every tile, then one executor.submit per tile.
Submit ==
    /\ main_pc = "start"
    /\ successful_results' = [ t \in Range(s2_tile_grid_list) |-> Blank ]
    /\ future' = [ t \in Tiles |->
                     IF t \in Range(s2_tile_grid_list)
                     THEN [ state |-> "pending", result |-> NoResult ] ELSE future[t] ]
    /\ main_pc' = "aggregating"
    /\ UNCHANGED << inputs, search, client, yielded, incomplete_results, error_results,
                    returned, failures, frame_vars >>

\* Mutant of StartSearch: every submitted search gets a thread of its own at
\* once, whatever max_workers says.
StartSearchUnbounded(t) ==
    /\ future[t].state = "pending"
    /\ future' = [ future EXCEPT ![t].state = "running" ]
    /\ search' = [ search EXCEPT ![t] = [ NewFrame EXCEPT !.pc = "attempt", !.attempt = 1 ] ]
    /\ client' = IF revision = "current" THEN [ client EXCEPT ![t] = NewClient ] ELSE client
    /\ UNCHANGED << inputs, main_pc, yielded, buckets, returned, failures, frame_vars >>

\* A free worker of the pool takes the oldest pending work item and enters
\* sentinel_2_complete_tile_search, up to the retry loop of search_for_date_ranges.
StartSearch(t) ==
    /\ future[t].state = "pending"
    /\ Cardinality(Running) < num_of_workers
    /\ \E i \in DOMAIN s2_tile_grid_list :
          /\ s2_tile_grid_list[i] = t
          /\ \A j \in 1..(i - 1) : future[s2_tile_grid_list[j]].state # "pending"
    /\ future' = [ future EXCEPT ![t].state = "running" ]
    /\ search' = [ search EXCEPT ![t] = [ NewFrame EXCEPT !.pc = "attempt", !.attempt = 1 ] ]
    /\ client' = IF revision = "current" THEN [ client EXCEPT ![t] = NewClient ] ELSE client
    /\ UNCHANGED << inputs, main_pc, yielded, buckets, returned, failures, frame_vars >>

\* ---------------------------------------------- StacSearch.search_for_date_ranges
\* One pass of "for attempt in range(1, max_retries + 1)": the queries of the
\* date ranges in order, each extending the local list results, until one
\* raises APIError (fail_at = its position, 0 = none does). The queries of a
\* pass touch nothing but the frame of this search.
AfterPass(frame, t, fail_at) ==
    LET n == Len(date_ranges)
        answered == IF fail_at = 0 THEN n ELSE fail_at - 1
    IN  [ frame EXCEPT
            !.results = @ \o Batches(t, answered),
            !.queries = @ + (IF fail_at = 0 THEN n ELSE fail_at),
            !.passes = @ + (IF fail_at = 0 THEN 1 ELSE 0),
            !.raises = @ + (IF fail_at = 0 THEN 0 ELSE 1),
            \* if attempt < max_retries: time.sleep(delay)
            !.sleeps = @ + (IF fail_at # 0 /\ frame.attempt < max_retries THEN 1 ELSE 0) ]

\* What follows a pass: "again" (next attempt), "return" or "raise".
AfterAttempt(attempt, failed) ==
    IF attempt < max_retries THEN "again"
    ELSE IF failed THEN "raise" ELSE "return"

\* The tile search is over: in the current revision the StacSearch it built
\* is a local of the frame and goes with it.
Dropped(t) == IF revision = "current" THEN [ client EXCEPT ![t] = NewClient ] ELSE client

SearchAttempt(t) ==
    /\ search[t].pc = "attempt"
    /\ \E fail_at \in 0..Len(date_ranges) :
          /\ fail_at > 0 => failures < MaxFailures
          /\ LET frame == AfterPass(search[t], t, fail_at)
                 then == AfterAttempt(search[t].attempt, fail_at > 0)
             IN  /\ failures' = failures + (IF fail_at > 0 THEN 1 ELSE 0)
                 /\ CASE then = "again" ->
                           /\ search' = [ search EXCEPT
                                            ![t] = [ frame EXCEPT !.attempt = @ + 1 ] ]
                           /\ UNCHANGED << client, future >>
                      [] then = "return" ->
                           \* self.search_results = results; return results
                           \* (the caller drops the returned list: from here on it
                           \* is reachable through the client only)
                           /\ search' = [ search EXCEPT
                                            ![t] = [ frame EXCEPT !.pc = "sort",
                                                                  !.results = << >> ] ]
                           /\ client' = [ client EXCEPT
                                            ![ClientOf(t)].search_results = frame.results ]
                           /\ UNCHANGED future
                      [] then = "raise" ->
                           \* raise e: the call is outside the try block of the tile
                           \* search, so the APIError ends the future.
                           /\ search' = [ search EXCEPT
                                            ![t] = [ frame EXCEPT !.pc = "raised",
                                                                  !.results = << >> ] ]
                           /\ future' = [ future EXCEPT ![t].state = "raised" ]
                           /\ client' = Dropped(t)
    /\ UNCHANGED << inputs, main_pc, yielded, buckets, returned, frame_vars >>

\* ------------------------------------------- sentinel_2_complete_tile_search
ErrorTuple(t) ==
    [ tile_id |-> t, id |-> ErrorNoResults, cloud_cover |-> NoneFloat, no_data |-> NoneFloat ]

IncompleteTuple(t) ==
    [ tile_id |-> t, id |-> IncompleteNoCover, cloud_cover |-> NoneFloat, no_data |-> NoneFloat ]

\* (tile_id, optimal_result.id, cloud cover, no-data percentage)
FoundTuple(t, item) ==
    [ tile_id |-> t, id |-> item.id, cloud_cover |-> item.cc,
      no_data |-> IF revision = "legacy" THEN NoneFloat ELSE item.nd ]

\* Mutant of Classify: a list without a complete product is reported as an
\* error instead of as incomplete.
ClassifyEmptyAsError(t, filtered_items) ==
    IF ~Truthy(filtered_items) THEN ErrorTuple(t)
    ELSE FoundTuple(t, filtered_items[1])

\* The tuple returned once the filtered list is known:
\*   if not filtered_items: return incomplete;  optimal_result = filtered_items[0]
Classify(t, filtered_items) ==
    IF ~Truthy(filtered_items) THEN IncompleteTuple(t)
    ELSE FoundTuple(t, filtered_items[1])

\* return <tuple>: the frame is gone, the future holds the tuple.
Finish(t, tuple) ==
    /\ search' = [ search EXCEPT ![t] = [ NewFrame EXCEPT !.pc = "done" ] ]
    /\ future' = [ future EXCEPT ![t] = [ state |-> "finished", result |-> tuple ] ]
    /\ client' = Dropped(t)

\* sorted_items = client.sort_results_by_cloud_coverage()
\* if not sorted_items: return tile_id, "error: No results found", None, None
SortResults(t) ==
    /\ search[t].pc = "sort"
    /\ LET c == ClientOf(t)
           sorted_items == IF Truthy(client[c].search_results)
                           THEN sorted(client[c].search_results) ELSE << >>
       IN  IF ~Truthy(sorted_items)
           THEN Finish(t, ErrorTuple(t))
           ELSE /\ client' = [ client EXCEPT ![c].cloud_cover_sorted_results = sorted_items ]
                /\ search' = [ search EXCEPT ![t].sorted_items = sorted_items,
                                             ![t].pc = "filter" ]
                /\ UNCHANGED future
    /\ UNCHANGED << inputs, main_pc, yielded, buckets, returned, failures, frame_vars >>

\* Current revision: filtered_items = client.filter_no_data(...), which reads
\* self.cloud_cover_sorted_results (sorting first when it is empty), keeps the
\* items below the threshold and stores them in self.filtered_results.
FilterNoData(t) ==
    /\ search[t].pc = "filter"
    /\ revision = "current"
    /\ LET c == ClientOf(t)
           sorted_results ==
               IF Truthy(client[c].cloud_cover_sorted_results)
               THEN client[c].cloud_cover_sorted_results
               ELSE IF Truthy(client[c].search_results)
                    THEN sorted(client[c].search_results) ELSE << >>
           filtered_results == FilterItems(sorted_results, max_no_data_value)
       IN  Finish(t, Classify(t, filtered_results))
    /\ UNCHANGED << inputs, main_pc, yielded, buckets, returned, failures, frame_vars >>

\* Legacy revision: the loop over the local sorted_items returns the first
\* item below the threshold, and "incomplete" when there is none.
ClassifyLegacy(t) ==
    /\ search[t].pc = "filter"
    /\ revision = "legacy"
    /\ Finish(t, Classify(t, FilterItems(search[t].sorted_items, max_no_data_value)))
    /\ UNCHANGED << inputs, main_pc, yielded, buckets, returned, failures, frame_vars >>

\* ------------------------------------------------ the as_completed loop
StartsWith(id, prefix) ==
    \/ prefix = "error:" /\ id = ErrorNoResults
    \/ prefix = "incomplete:" /\ id = IncompleteNoCover

\* Mutant of BucketOf: the test for "incomplete:" is missing, so an incomplete
\* result falls through to the dictionary.
BucketOfNoIncomplete(result) ==
    IF StartsWith(result.id, "error:") THEN "error" ELSE "successful"

\* The bucket one result goes to: the two startswith tests of the loop, each
\* followed by continue.
BucketOf(result) ==
    IF StartsWith(result.id, "error:") THEN "error"
    ELSE IF StartsWith(result.id, "incomplete:") THEN "incomplete"
    ELSE "successful"

\* for future in as_completed(future_to_tile): one iteration, on any future
\* that is done and was not handed out yet. future.result() re-raises what the
\* search raised, and nothing in the function catches it.
Aggregate(t) ==
    /\ main_pc = "aggregating"
    /\ t \notin yielded
    /\ future[t].state \in {"finished", "raised"}
    /\ yielded' = yielded \cup {t}
    /\ IF future[t].state = "raised"
       THEN /\ main_pc' = "raised"
            /\ UNCHANGED buckets
       ELSE LET r == future[t].result
                b == BucketOf(r)
            IN  /\ error_results' =
                       IF b = "error" THEN Append(error_results, r.tile_id) ELSE error_results
                /\ incomplete_results' =
                       IF b = "incomplete" THEN Append(incomplete_results, r.tile_id)
                       ELSE incomplete_results
                /\ successful_results' =
                       IF b = "successful"
                       THEN [ successful_results EXCEPT
                                ![r.tile_id] = [ id |-> r.id, cloud_cover |-> r.cloud_cover,
                                                 no_data |-> r.no_data ] ]
                       ELSE successful_results
                /\ UNCHANGED main_pc
    /\ UNCHANGED << inputs, search, client, future, returned, failures, frame_vars >>

\* cleaned_successful_results = {k: v for k, v in ... if v != ""}
Cleaned(results) ==
    [ t \in { k \in DOMAIN results : results[k] # Blank } |-> results[t] ]

\* as_completed is exhausted: the three buckets are returned.
Return ==
    /\ main_pc = "aggregating"
    /\ yielded = Range(s2_tile_grid_list)
    /\ returned' = [ successful |-> Cleaned(successful_results),
                     incomplete |-> incomplete_results, error |-> error_results ]
    /\ main_pc' = "returned"
    /\ UNCHANGED << inputs, search, client, future, yielded, buckets, failures, frame_vars >>

Next ==
    \/ Submit
    \/ \E t \in Tiles : StartSearch(t)
    \/ \E t \in Tiles : SearchAttempt(t)
    \/ \E t \in Tiles : SortResults(t)
    \/ \E t \in Tiles : FilterNoData(t)
    \/ \E t \in Tiles : Aggregate(t)
    \/ Return

Spec == Init /\ [][Next]_vars

\* The pool runs every thread it started and the main thread keeps running:
\* a step that stays possible is eventually taken. A catalog query eventually
\* returns or raises, so a pass of the retry loop eventually ends.
\* The steps of the search of tile t, from the moment a worker takes it.
TileSearch(t) ==
    StartSearch(t) \/ SearchAttempt(t) \/ SortResults(t) \/ FilterNoData(t)

\* The steps of the thread that called find_best_product_per_s2_tile.
MainThread == Submit \/ (\E t \in Tiles : Aggregate(t)) \/ Return

Fairness ==
    /\ WF_vars(MainThread)
    /\ \A t \in Tiles : WF_vars(TileSearch(t))

SpecFair == Init /\ [][Next]_vars /\ Fairness

\* ------------------------------------------------------ legacy revision
\* BestProductsForFeatures.find_best_complete_products of the legacy revision:
\* search_client=self.search_client goes to every tile search.
InitLegacy ==
    \E tiles \in TileLists, n \in 1..MaxRanges, w \in 1..MaxWorkers :
        InitState("legacy", tiles, [ i \in 1..n |-> i ], w)

NextLegacy ==
    \/ Submit
    \/ \E t \in Tiles : StartSearch(t)
    \/ \E t \in Tiles : SearchAttempt(t)
    \/ \E t \in Tiles : SortResults(t)
    \/ \E t \in Tiles : ClassifyLegacy(t)
    \/ \E t \in Tiles : Aggregate(t)
    \/ Return

SpecLegacy == InitLegacy /\ [][NextLegacy]_vars

\* ------------------------------------------------- the selection rule alone
\* Candidate lists as a catalog can answer them: the i-th candidate has the
\* i-th product id, any cloud cover and any no-data percentage around the
\* threshold.
ProductIdAt == << "T1_a", "T1_b", "T1_c", "T1_d", "T1_e" >>
CloudCovers == {1, 2}
NoDataValues == {max_no_data_value - 1, max_no_data_value, max_no_data_value + 1}

CandidateLists ==
    UNION { { [ i \in 1..k |-> Item(ProductIdAt[i], cc[i], nd[i]) ] :
                cc \in [1..k -> CloudCovers], nd \in [1..k -> NoDataValues] } : k \in 0..MaxLen }

\* One tile search whose search_for_date_ranges has just returned the drawn
\* candidate list, in either revision.
InitSelect ==
    \E rev \in {"current", "legacy"}, candidates \in CandidateLists :
        /\ revision = rev
        /\ s2_tile_grid_list = << "T1" >>
        /\ date_ranges = << 1 >>
        /\ num_of_workers = 1
        /\ search = [ t \in Tiles |->
                        IF t = "T1"
                        THEN [ NewFrame EXCEPT !.pc = "sort", !.attempt = max_retries,
                                               !.queries = max_retries, !.passes = max_retries ]
                        ELSE NewFrame ]
        /\ client = [ c \in ClientIds |->
                        IF c = (IF rev = "legacy" THEN SharedClient ELSE "T1")
                        THEN [ NewClient EXCEPT !.search_results = candidates ]
                        ELSE NewClient ]
        /\ future = [ t \in Tiles |->
                        [ state |-> IF t = "T1" THEN "running" ELSE "none", result |-> NoResult ] ]
        /\ main_pc = "aggregating"
        /\ yielded = {}
        /\ successful_results = [ t \in {"T1"} |-> Blank ]
        /\ incomplete_results = << >>
        /\ error_results = << >>
        /\ returned = [ successful |-> << >>, incomplete |-> << >>, error |-> << >> ]
        /\ failures = 0
        /\ spatial_join_results = << >>
        /\ write_pc = "ready"
        /\ JoinIdle
        /\ AuxIdle
        /\ GridIdle

NextSelect ==
    \/ \E t \in Tiles : SortResults(t)
    \/ \E t \in Tiles : FilterNoData(t)
    \/ \E t \in Tiles : ClassifyLegacy(t)
    \/ \E t \in Tiles : Aggregate(t)
    \/ Return

SpecSelect == InitSelect /\ [][NextSelect]_vars

\* ------------------------------------------------------ product propagation
NaN == "nan"

\* Mutant of FirstMin: the last key with the least cloud_cover.
LastMin(tiles, results) ==
    LET best == CHOOSE i \in DOMAIN tiles :
                    /\ \A j \in DOMAIN tiles :
                          results[tiles[i]].cloud_cover <= results[tiles[j]].cloud_cover
                    /\ \A j \in (i + 1)..Len(tiles) :
                          results[tiles[j]].cloud_cover > results[tiles[i]].cloud_cover
    IN  tiles[best]

\* The first key of relevant_results with the least cloud_cover: min() over a
\* dict walks the keys in insertion order and keeps the first minimum.
FirstMin(tiles, results) ==
    LET best == CHOOSE i \in DOMAIN tiles :
                    /\ \A j \in DOMAIN tiles :
                          results[tiles[i]].cloud_cover <= results[tiles[j]].cloud_cover
                    /\ \A j \in 1..(i - 1) :
                          results[tiles[j]].cloud_cover > results[tiles[i]].cloud_cover
    IN  tiles[best]

\* Mutant of get_best_product_id_for_each_grid_tile: without the
\* all_keys_present test the choice is made over the tiles that are present.
BestEffortProductId(s2_tile_search_results, feature_s2_tiles) ==
    LET present == SelectSeq(feature_s2_tiles, LAMBDA k : k \in DOMAIN s2_tile_search_results)
    IN  IF present = << >> THEN None
        ELSE s2_tile_search_results[FirstMin(present, s2_tile_search_results)].id

\* _get_best_product_id_for_each_grid_tile: the product id, None, or
\* "ValueError" when min() is handed an empty dict (only KeyError is caught).
get_best_product_id_for_each_grid_tile(s2_tile_search_results, feature_s2_tiles) ==
    LET all_keys_present ==
            \A i \in DOMAIN feature_s2_tiles :
                feature_s2_tiles[i] \in DOMAIN s2_tile_search_results
    IN  IF ~all_keys_present THEN None
        ELSE IF Len(feature_s2_tiles) = 1
             THEN s2_tile_search_results[feature_s2_tiles[1]].id
        ELSE IF feature_s2_tiles = << >> THEN "ValueError"
        ELSE s2_tile_search_results[FirstMin(feature_s2_tiles, s2_tile_search_results)].id

\* spatial_join_results[best_product_column] =
\*     spatial_join_results[s2_tiles_column].apply(lambda x: ...)
\* The column is assigned only when no row raised.
WriteBestProductIds ==
    /\ write_pc = "ready"
    /\ LET column == [ i \in DOMAIN spatial_join_results |->
                         get_best_product_id_for_each_grid_tile(
                             returned.successful, spatial_join_results[i].s2_tiles) ]
       IN  IF \E i \in DOMAIN column : column[i] = "ValueError"
           THEN /\ write_pc' = "raised"
                /\ UNCHANGED spatial_join_results
           ELSE /\ write_pc' = "done"
                /\ spatial_join_results' =
                       [ i \in DOMAIN spatial_join_results |->
                           [ spatial_join_results[i] EXCEPT !.best_s2_product_id = column[i] ] ]
    /\ UNCHANGED << inputs, search, client, future, main_pc, yielded, buckets, returned,
                    failures, join_vars, grid_vars, aux_vars >>

\* The product each tile has when it is in the index.
ProductOf(t) == CASE t = "T1" -> "T1_a" [] t = "T2" -> "T2_a" [] OTHER -> "T3_a"

IndexCloudCovers == {5, 10}

\* The successful-results dictionaries find_best_product_per_s2_tile can return.
Indexes ==
    UNION { [ found -> IndexCloudCovers ] : found \in SUBSET Tiles }

\* The s2_tiles lists spatial_join_within writes: the names of the covering
\* tiles, sorted, [nan] for a polygon that matched none; and the empty list
\* a direct caller can pass.
CoverLists ==
    { q \in DistinctSeqs(Tiles, MaxCover) :
        \A i, j \in DOMAIN q : i < j => TileRank(q[i]) < TileRank(q[j]) }
    \cup { << NaN >> }

\* select_best_products_per_feature after find_best_complete_products returned.
InitPropagate ==
    \E index \in Indexes, k \in 1..MaxPolygons :
        \E covers \in [ 1..k -> CoverLists ] :
            /\ revision = "current"
            /\ s2_tile_grid_list = << >>
            /\ date_ranges = << 1 >>
            /\ num_of_workers = 1
            /\ search = [ t \in Tiles |-> NewFrame ]
            /\ client = [ c \in ClientIds |-> NewClient ]
            /\ future = [ t \in Tiles |-> [ state |-> "none", result |-> NoResult ] ]
            /\ main_pc = "returned"
            /\ yielded = {}
            /\ successful_results = << >>
            /\ incomplete_results = << >>
            /\ error_results = << >>
            /\ returned = [ successful |->
                                [ t \in DOMAIN index |->
                                    [ id |-> ProductOf(t), cloud_cover |-> index[t],
                                      no_data |-> 0 ] ],
                            incomplete |-> << >>, error |-> << >> ]
            /\ failures = 0
            /\ spatial_join_results =
                   [ i \in 1..k |-> [ s2_tiles |-> covers[i], best_s2_product_id |-> "unset" ] ]
            /\ write_pc = "ready"
            /\ JoinIdle
            /\ AuxIdle
            /\ GridIdle

NextPropagate == WriteBestProductIds

SpecPropagate == InitPropagate /\ [][NextPropagate]_vars

\* ------------------------------------------------------ spatial_join_within
\* The column names the caller passes.
polygon_column == "polygon_id"
vector_column_name == "joined_polygon_ids"

\* An axis-aligned rectangle with a non-empty interior.
Box(minx, miny, maxx, maxy) == [ minx |-> minx, miny |-> miny, maxx |-> maxx, maxy |-> maxy ]

\* Mutant of within: the interiors overlap.
Overlapping(a, b) ==
    /\ a.minx < b.maxx /\ b.minx < a.maxx
    /\ a.miny < b.maxy /\ b.miny < a.maxy

\* predicate="within": no point of a lies outside b.
within(a, b) ==
    /\ b.minx <= a.minx /\ a.maxx <= b.maxx
    /\ b.miny <= a.miny /\ a.maxy <= b.maxy

\* predicate="intersects": a and b share a point, a boundary point included.
intersects(a, b) ==
    /\ a.minx <= b.maxx /\ b.minx <= a.maxx
    /\ a.miny <= b.maxy /\ b.miny <= a.maxy

Satisfies(pred, a, b) == IF pred = "within" THEN within(a, b) ELSE intersects(a, b)

\* The coarse polygons: T1 and T2 overlap, T2 and T3 share an edge.
TileGeometry(t) ==
    CASE t = "T1" -> Box(0, 0, 2, 2)
      [] t = "T2" -> Box(1, 0, 3, 2)
      [] OTHER    -> Box(3, 0, 5, 2)

\* The fine polygons: rectangles of width 1 or 2 along the row of tiles,
\* inside one tile, inside two, across the outer edge of the last tile, or
\* outside it with an edge in common.
FineGeometries == { Box(x, 0, x + w, 1) : x \in { 1, 2, 4, 5 }, w \in 1..2 }

\* str(uuid.uuid4()): a value no other call returns. The n-th value drawn by
\* one list comprehension is told from the values the caller's frame holds.
Uuid4(n) == [ kind |-> "uuid4", n |-> n ]
GivenId(n) == [ kind |-> "given", n |-> n ]

HasColumn(df, column_name) == column_name \in Range(df.columns)

\* A row with one more (or one replaced) value.
WithValue(row, column_name, value) ==
    [ c \in (DOMAIN row) \cup { column_name } |-> IF c = column_name THEN value ELSE row[c] ]

\* df[column_name] = values, on the frame object itself.
SetColumn(df, column_name, values) ==
    Frame(IF HasColumn(df, column_name) THEN df.columns ELSE Append(df.columns, column_name),
          [ i \in DOMAIN df.rows |-> WithValue(df.rows[i], column_name, values[i]) ])

\* df[column_name] = [str(uuid.uuid4()) for _ in range(len(df))]
generate_uuid_column(df, column_name) ==
    SetColumn(df, column_name, [ i \in DOMAIN df.rows |-> Uuid4(i) ])

\* The name of the temporary id column. The current revision appends a uuid
\* to the name when the frame has a feature_id column; the legacy one does not look.
temp_feature_id(rev, df) ==
    IF rev = "current" /\ HasColumn(df, "feature_id") THEN "feature_id_uuid" ELSE "feature_id"

RECURSIVE Flatten(_)
Flatten(lists) == IF lists = << >> THEN << >> ELSE Head(lists) \o Flatten(Tail(lists))

\* The rows gpd.sjoin(..., how="left") gives for one left row: one per right
\* row the predicate holds with, or one with NaN when there is none.
JoinedRows(row, right, pred) ==
    LET matched == SelectSeq(right.rows, LAMBDA r : Satisfies(pred, row.geometry, r.geometry))
    IN  IF matched = << >> THEN << WithValue(row, polygon_column, NaN) >>
        ELSE [ j \in DOMAIN matched |-> WithValue(row, polygon_column, matched[j][polygon_column]) ]

\* gpd.sjoin(left, right[[polygon_column, "geometry"]], how="left", predicate=pred)
sjoin(left, right, pred) ==
    Frame(Append(left.columns, polygon_column),
          Flatten([ i \in DOMAIN left.rows |-> JoinedRows(left.rows[i], right, pred) ]))

\* Mutant of groupby_agg_list: every joined row is a group of its own.
UngroupedLists(joined, by, column) ==
    Frame(<< by, column >>,
          [ i \in DOMAIN joined.rows |->
              [ c \in { by, column } |->
                  IF c = by THEN joined.rows[i][by] ELSE << joined.rows[i][column] >> ] ])

\* joined.groupby(by)[column].agg(list).reset_index(): one row per key, with
\* the values of the key's rows in their order. The order of the keys does
\* not reach the result (the merge below walks the left frame).
groupby_agg_list(joined, by, column) ==
    LET firsts == SelectSeq([ i \in DOMAIN joined.rows |-> i ],
                            LAMBDA i : \A j \in 1..(i - 1) : joined.rows[j][by] # joined.rows[i][by])
        ListOf(key) == LET group == SelectSeq(joined.rows, LAMBDA r : r[by] = key)
                       IN  [ m \in DOMAIN group |-> group[m][column] ]
    IN  Frame(<< by, column >>,
              [ k \in DOMAIN firsts |->
                  [ c \in { by, column } |->
                      IF c = by THEN joined.rows[firsts[k]][by]
                      ELSE ListOf(joined.rows[firsts[k]][by]) ] ])

\* left.merge(right, on=on, how="left"): a new frame with, for each left row
\* in order, one row per right row of the same key; NoList where there is none.
NoList == << >>
merge(left, right, on, column) ==
    LET MergedRows(row) ==
            LET same == SelectSeq(right.rows, LAMBDA r : r[on] = row[on])
            IN  IF same = << >> THEN << WithValue(row, column, NoList) >>
                ELSE [ j \in DOMAIN same |-> WithValue(row, column, same[j][column]) ]
    IN  Frame(Append(left.columns, column),
              Flatten([ i \in DOMAIN left.rows |-> MergedRows(left.rows[i]) ]))

\* df.rename(columns={old: new})
rename(df, old, new) ==
    Frame([ i \in DOMAIN df.columns |-> IF df.columns[i] = old THEN new ELSE df.columns[i] ],
          [ i \in DOMAIN df.rows |->
              [ c \in ((DOMAIN df.rows[i]) \ { old }) \cup { new } |->
                  IF c = new THEN df.rows[i][old] ELSE df.rows[i][c] ] ])

\* df.drop(columns=[column_name])
drop(df, column_name) ==
    Frame(SelectSeq(df.columns, LAMBDA c : c # column_name),
          [ i \in DOMAIN df.rows |->
              [ c \in (DOMAIN df.rows[i]) \ { column_name } |-> df.rows[i][c] ] ])

\* The place of a name in the ascending order of sorted().
NameRank(name) == TileRank(name)

RECURSIVE InsertByName(_, _)
InsertByName(name, list) ==
    IF list = << >> THEN << name >>
    ELSE IF NameRank(Head(list)) <= NameRank(name)
         THEN << Head(list) >> \o InsertByName(name, Tail(list))
         ELSE << name >> \o list

\* sorted(list) on a list of names; a list holding only NaN is left as it is.
RECURSIVE sorted_names(_)
sorted_names(list) ==
    IF list = << >> THEN << >>
    ELSE InsertByName(list[Len(list)], sorted_names(SubSeq(list, 1, Len(list) - 1)))

\* spatial_join_within, from the call to the return. The temporary id column
\* is written to the frame the caller passed; the merge makes the new frame.
SpatialJoinWithin ==
    /\ join_pc = "ready"
    /\ LET temp == temp_feature_id(revision, vector_features)
           with_ids == generate_uuid_column(vector_features, temp)
           joined_gdf == sjoin(with_ids, polygon_features, predicate)
           grouped_gdf == groupby_agg_list(joined_gdf, temp, polygon_column)
           merged == merge(with_ids, grouped_gdf, temp, polygon_column)
           renamed == rename(merged, polygon_column, vector_column_name)
           dropped == drop(renamed, temp)
       IN  /\ vector_features' = with_ids
           /\ features' = SetColumn(dropped, vector_column_name,
                                    [ i \in DOMAIN dropped.rows |->
                                        sorted_names(dropped.rows[i][vector_column_name]) ])
    /\ join_pc' = "done"
    /\ UNCHANGED << polygon_features, predicate, grid_vars >>
    /\ UNCHANGED << inputs, search, client, future, main_pc, yielded, buckets, returned,
                    failures, spatial_join_results, write_pc, aux_vars >>

\* The frames a caller passes: fine polygons numbered by vector_id, with or
\* without a feature_id column of their own; coarse polygons named after tiles.
VectorFrames ==
    { Frame(IF has_id THEN << "vector_id", "geometry", "feature_id" >>
                      ELSE << "vector_id", "geometry" >>,
            [ i \in DOMAIN geoms |->
                IF has_id
                THEN [ vector_id |-> i, geometry |-> geoms[i], feature_id |-> GivenId(i) ]
                ELSE [ vector_id |-> i, geometry |-> geoms[i] ] ]) :
        has_id \in BOOLEAN,
        geoms \in UNION { [ 1..k -> FineGeometries ] : k \in 1..MaxPolygons } }

PolygonFrames ==
    { Frame(<< polygon_column, "geometry" >>,
            [ i \in DOMAIN tiles |->
                [ c \in { polygon_column, "geometry" } |->
                    IF c = polygon_column THEN tiles[i] ELSE TileGeometry(tiles[i]) ] ]) :
        tiles \in TileLists }

InitJoin ==
    \E rev \in { "current", "legacy" }, fine \in VectorFrames, coarse \in PolygonFrames,
       pred \in { "within", "intersects" } :
        /\ revision = rev
        /\ s2_tile_grid_list = << >>
        /\ date_ranges = << 1 >>
        /\ num_of_workers = 1
        /\ search = [ t \in Tiles |-> NewFrame ]
        /\ client = [ c \in ClientIds |-> NewClient ]
        /\ future = [ t \in Tiles |-> [ state |-> "none", result |-> NoResult ] ]
        /\ main_pc = "start"
        /\ yielded = {}
        /\ successful_results = << >>
        /\ incomplete_results = << >>
        /\ error_results = << >>
        /\ returned = [ successful |-> << >>, incomplete |-> << >>, error |-> << >> ]
        /\ failures = 0
        /\ spatial_join_results = << >>
        /\ write_pc = "ready"
        /\ vector_features = fine
        /\ polygon_features = coarse
        /\ predicate = pred
        /\ features = Frame(<< >>, << >>)
        /\ join_pc = "ready"
        /\ GridIdle
        /\ AuxIdle

NextJoin == SpatialJoinWithin

SpecJoin == InitJoin /\ [][NextJoin]_vars

\* ------------------------------------------------------- create_vector_grid
\* Mutant of arange: the stop value is a start too when the steps reach it.
ArangeInclusive(start, stop, step) ==
    LET n == IF stop >= start THEN ((stop - start) \div step) + 1 ELSE 0
    IN  [ i \in 1..n |-> start + (i - 1) * step ]

\* Mutant of arange: only the steps that fit before stop as whole cells.
ArangeWholeCells(start, stop, step) ==
    LET n == IF stop > start THEN (stop - start) \div step ELSE 0
    IN  [ i \in 1..n |-> start + (i - 1) * step ]

\* np.arange(start, stop=stop, step=step) for step > 0: start, start + step,
\* ... below stop, ceil((stop - start) / step) of them, none when stop <= start.
arange(start, stop, step) ==
    LET n == IF stop > start THEN ((stop - start) + step - 1) \div step ELSE 0
    IN  [ i \in 1..n |-> start + (i - 1) * step ]

\* (lon_coords, lat_coords) of the bounding box.
create_grid_coordinates(box, size) ==
    [ lon_coords |-> arange(box[1], box[3], size),
      lat_coords |-> arange(box[2], box[4], size) ]

\* np.meshgrid(lon_coords, lat_coords), both flattened row by row: the
\* longitudes run fastest, one row of cells per latitude.
generate_flattened_grid_coords(lon_coords, lat_coords) ==
    [ k \in 1..(Len(lon_coords) * Len(lat_coords)) |->
        [ lon |-> lon_coords[((k - 1) % Len(lon_coords)) + 1],
          lat |-> lat_coords[((k - 1) \div Len(lon_coords)) + 1] ] ]

\* Polygon([(x, y), (x + size, y), (x + size, y + size), (x, y + size)])
CellPolygon(x, y, size) == Box(x, y, x + size, y + size)

\* create_vector_grid: one square per flattened coordinate pair, then the
\* feature_id column (the legacy revision returns the grid without it).
create_vector_grid(rev, box, size) ==
    LET coords == create_grid_coordinates(box, size)
        flat == generate_flattened_grid_coords(coords.lon_coords, coords.lat_coords)
        polygon_array == Frame(<< "geometry" >>,
                          [ i \in DOMAIN flat |->
                              [ geometry |-> CellPolygon(flat[i].lon, flat[i].lat, size) ] ])
    IN  IF rev = "current" THEN generate_uuid_column(polygon_array, "feature_id") ELSE polygon_array

CreateVectorGrid ==
    /\ grid_pc = "ready"
    /\ grid' = create_vector_grid(revision, bounding_box, grid_size)
    /\ grid_pc' = "done"
    /\ UNCHANGED << bounding_box, grid_size, parallel_vars, join_vars >>
    /\ UNCHANGED << inputs, search, client, future, main_pc, yielded, buckets, returned,
                    failures, spatial_join_results, write_pc, aux_vars >>

Least(S) == CHOOSE x \in S : \A y \in S : x <= y
Greatest(S) == CHOOSE x \in S : \A y \in S : y <= x

\* grid.total_bounds of a grid with at least one cell.
total_bounds(df) ==
    << Least({ df.rows[i].geometry.minx : i \in DOMAIN df.rows }),
       Least({ df.rows[i].geometry.miny : i \in DOMAIN df.rows }),
       Greatest({ df.rows[i].geometry.maxx : i \in DOMAIN df.rows }),
       Greatest({ df.rows[i].geometry.maxy : i \in DOMAIN df.rows }) >>

\* The calls: any corners on the coordinate lattice, any positive cell size.
InitGrid ==
    \E rev \in { "current", "legacy" }, box \in [ 1..4 -> 0..MaxCoord ], size \in 1..MaxSize :
        /\ revision = rev
        /\ s2_tile_grid_list = << >>
        /\ date_ranges = << 1 >>
        /\ num_of_workers = 1
        /\ search = [ t \in Tiles |-> NewFrame ]
        /\ client = [ c \in ClientIds |-> NewClient ]
        /\ future = [ t \in Tiles |-> [ state |-> "none", result |-> NoResult ] ]
        /\ main_pc = "start"
        /\ yielded = {}
        /\ successful_results = << >>
        /\ incomplete_results = << >>
        /\ error_results = << >>
        /\ returned = [ successful |-> << >>, incomplete |-> << >>, error |-> << >> ]
        /\ failures = 0
        /\ spatial_join_results = << >>
        /\ write_pc = "ready"
        /\ JoinIdle
        /\ AuxIdle
        /\ bounding_box = box
        /\ grid_size = size
        /\ grid = Frame(<< >>, << >>)
        /\ grid_pc = "ready"
        /\ ParallelIdle

NextGrid == CreateVectorGrid

SpecGrid == InitGrid /\ [][NextGrid]_vars

\* ---------------------------------------------- create_vector_grid_parallel
Smaller(a, b) == IF a <= b THEN a ELSE b

\* workers = min(cpu_count(), num_cells); if num_of_workers: workers = num_of_workers
WorkersFor(num_of_workers_arg, cpu_count, num_cells) ==
    IF num_of_workers_arg # 0 THEN num_of_workers_arg ELSE Smaller(cpu_count, num_cells)

\* chunk_size = (num_cells + workers - 1) // workers, for workers > 0
ChunkSize(num_cells, workers) == (num_cells + workers - 1) \div workers

\* [(lon[i : i + chunk_size], lat[i : i + chunk_size], grid_size)
\*  for i in range(0, num_cells, chunk_size)], for chunk_size > 0
ChunksOf(flat, chunk_size) ==
    [ k \in 1..((Len(flat) + chunk_size - 1) \div chunk_size) |->
        SubSeq(flat, (k - 1) * chunk_size + 1, Smaller(k * chunk_size, Len(flat))) ]

\* _create_polygons_from_coords_chunk
create_polygons_from_coords_chunk(chunk, size) ==
    [ i \in DOMAIN chunk |-> CellPolygon(chunk[i].lon, chunk[i].lat, size) ]

\* The flattened coordinate pairs of the call.
FlatCoords ==
    LET coords == create_grid_coordinates(bounding_box, grid_size)
    IN  generate_flattened_grid_coords(coords.lon_coords, coords.lat_coords)

\* From the call to executor.map: the worker count, the chunk size and the
\* chunks. workers = 0 (no cell, no num_of_workers) divides by zero; no cell
\* with num_of_workers given makes chunk_size 0 and range(0, 0, 0) fail.
SplitChunks ==
    /\ grid_pc = "ready"
    /\ LET num_cells == Len(FlatCoords)
           workers == WorkersFor(grid_workers, cpus, num_cells)
       IN  IF workers = 0
           THEN /\ grid_pc' = "ZeroDivisionError"
                /\ UNCHANGED << chunks, chunk_results >>
           ELSE IF ChunkSize(num_cells, workers) = 0
           THEN /\ grid_pc' = "ValueError"
                /\ UNCHANGED << chunks, chunk_results >>
           ELSE /\ grid_pc' = "mapping"
                /\ chunks' = ChunksOf(FlatCoords, ChunkSize(num_cells, workers))
                /\ chunk_results' =
                       [ k \in DOMAIN chunks' |-> [ state |-> "pending", polygons |-> << >> ] ]
    /\ UNCHANGED << bounding_box, grid_size, grid, grid_workers, cpus, polygons, join_vars >>
    /\ UNCHANGED << inputs, search, client, future, main_pc, yielded, buckets, returned,
                    failures, spatial_join_results, write_pc, aux_vars >>

\* A worker process builds the polygons of one chunk. There are never more
\* chunks than workers, so the chunks finish in any order.
RunChunk(k) ==
    /\ grid_pc = "mapping"
    /\ k \in DOMAIN chunks
    /\ chunk_results[k].state = "pending"
    /\ chunk_results' =
           [ chunk_results EXCEPT ![k] =
               [ state |-> "done",
                 polygons |-> create_polygons_from_coords_chunk(chunks[k], grid_size) ] ]
    /\ UNCHANGED << bounding_box, grid_size, grid, grid_pc, grid_workers, cpus, chunks,
                    polygons, join_vars >>
    /\ UNCHANGED << inputs, search, client, future, main_pc, yielded, buckets, returned,
                    failures, spatial_join_results, write_pc, aux_vars >>

\* Mutant of Collectable: the results are taken as they complete.
CollectableAsCompleted == { k \in DOMAIN chunk_results : chunk_results[k].state = "done" }

\* for result in results: executor.map hands the results out in the order of
\* the chunks, waiting for the next one.
Collectable ==
    { k \in DOMAIN chunk_results :
        /\ chunk_results[k].state = "done"
        /\ \A j \in 1..(k - 1) : chunk_results[j].state = "collected" }

\* polygons.extend(result)
CollectResult(k) ==
    /\ grid_pc = "mapping"
    /\ k \in Collectable
    /\ polygons' = polygons \o chunk_results[k].polygons
    /\ chunk_results' = [ chunk_results EXCEPT ![k].state = "collected" ]
    /\ UNCHANGED << bounding_box, grid_size, grid, grid_pc, grid_workers, cpus, chunks,
                    join_vars >>
    /\ UNCHANGED << inputs, search, client, future, main_pc, yielded, buckets, returned,
                    failures, spatial_join_results, write_pc, aux_vars >>

\* After the pool: GeoDataFrame(geometry=polygons), then the feature_id
\* column (the legacy revision returns the grid without it).
FinishParallel ==
    /\ grid_pc = "mapping"
    /\ \A k \in DOMAIN chunk_results : chunk_results[k].state = "collected"
    /\ LET unnamed == Frame(<< "geometry" >>,
                            [ i \in DOMAIN polygons |-> [ geometry |-> polygons[i] ] ])
       IN  grid' = IF revision = "current"
                   THEN generate_uuid_column(unnamed, "feature_id") ELSE unnamed
    /\ grid_pc' = "done"
    /\ UNCHANGED << bounding_box, grid_size, parallel_vars, join_vars >>
    /\ UNCHANGED << inputs, search, client, future, main_pc, yielded, buckets, returned,
                    failures, spatial_join_results, write_pc, aux_vars >>

\* The calls: a box with its lower corner at the origin (the construction
\* only adds to it), any positive cell size, num_of_workers given or not.
InitGridParallel ==
    \E rev \in { "current", "legacy" }, maxx \in 0..MaxCoord, maxy \in 0..MaxCoord,
       size \in 1..MaxSize, w \in 0..MaxWorkers, cpu \in 1..MaxCpus :
        /\ revision = rev
        /\ s2_tile_grid_list = << >>
        /\ date_ranges = << 1 >>
        /\ num_of_workers = 1
        /\ search = [ t \in Tiles |-> NewFrame ]
        /\ client = [ c \in ClientIds |-> NewClient ]
        /\ future = [ t \in Tiles |-> [ state |-> "none", result |-> NoResult ] ]
        /\ main_pc = "start"
        /\ yielded = {}
        /\ successful_results = << >>
        /\ incomplete_results = << >>
        /\ error_results = << >>
        /\ returned = [ successful |-> << >>, incomplete |-> << >>, error |-> << >> ]
        /\ failures = 0
        /\ spatial_join_results = << >>
        /\ write_pc = "ready"
        /\ JoinIdle
        /\ AuxIdle
        /\ bounding_box = << 0, 0, maxx, maxy >>
        /\ grid_size = size
        /\ grid = Frame(<< >>, << >>)
        /\ grid_pc = "ready"
        /\ grid_workers = w
        /\ cpus = cpu
        /\ chunks = << >>
        /\ chunk_results = << >>
        /\ polygons = << >>

NextGridParallel ==
    \/ SplitChunks
    \/ \E k \in DOMAIN chunks : RunChunk(k)
    \/ \E k \in DOMAIN chunks : CollectResult(k)
    \/ FinishParallel

SpecGridParallel == InitGridParallel /\ [][NextGridParallel]_vars

\* ------------------------------------------------------ standalone functions
\* The pipeline, the join and the grid are all idle: the state in which the
\* functions below are called on their own.
PipelineIdleAt(rev) ==
    /\ revision = rev
    /\ s2_tile_grid_list = << >>
    /\ date_ranges = << 1 >>
    /\ num_of_workers = 1
    /\ search = [ t \in Tiles |-> NewFrame ]
    /\ client = [ c \in ClientIds |-> NewClient ]
    /\ future = [ t \in Tiles |-> [ state |-> "none", result |-> NoResult ] ]
    /\ main_pc = "start"
    /\ yielded = {}
    /\ successful_results = << >>
    /\ incomplete_results = << >>
    /\ error_results = << >>
    /\ returned = [ successful |-> << >>, incomplete |-> << >>, error |-> << >> ]
    /\ failures = 0
    /\ spatial_join_results = << >>
    /\ write_pc = "ready"
    /\ JoinIdle
    /\ GridIdle

PipelineIdle == PipelineIdleAt("current")

pipeline_vars == << inputs, search, client, future, main_pc, yielded, buckets, returned,
                    failures, spatial_join_results, write_pc, join_vars, grid_vars >>

\* What a call of one standalone function leaves alone.
other_than_period == << pipeline_vars, time_vars, clip_vars, location_vars, stac_vars,
                        products_vars >>
other_than_time == << pipeline_vars, period_vars, clip_vars, location_vars, stac_vars,
                      products_vars >>
other_than_clip == << pipeline_vars, period_vars, time_vars, location_vars, stac_vars,
                      products_vars >>
other_than_location == << pipeline_vars, period_vars, time_vars, clip_vars, stac_vars,
                          products_vars >>
other_than_stac == << inputs, search, future, main_pc, yielded, buckets, returned, failures,
                      spatial_join_results, write_pc, join_vars, grid_vars,
                      period_vars, time_vars, clip_vars, location_vars, products_vars >>
other_than_products == << pipeline_vars, period_vars, time_vars, clip_vars, location_vars,
                          stac_vars >>

\* ------------------------------------- create_date_range_for_specific_period
\* calendar.isleap
isleap(year) == year % 4 = 0 /\ (year % 100 # 0 \/ year % 400 = 0)

\* calendar.mdays, from January
mdays == << 31, 28, 31, 30, 31, 30, 31, 31, 30, 31, 30, 31 >>

\* A month whose last day never depends on the year.
MonthrangeWithoutLeapDay(year, month) == mdays[month]

\* calendar.monthrange(year, month)[1]: the number of days of the month
monthrange(year, month) ==
    mdays[month] + (IF month = 2 /\ isleap(year) THEN 1 ELSE 0)

\* datetime.datetime(year, month, day, hour, minute, second)
datetime(year, month, day, hour, minute, second) ==
    [ year |-> year, month |-> month, day |-> day,
      hour |-> hour, minute |-> minute, second |-> second ]

\* datetime.isoformat(): the fields in the order "YYYY-MM-DDTHH:MM:SS" prints them
isoformat(d) == << d.year, d.month, d.day, d.hour, d.minute, d.second >>

\* f"{start_date.isoformat()}Z/{end_date.isoformat()}Z": the two stamps, each
\* closed by "Z", on either side of the "/"
DateRange(start_date, end_date) ==
    << isoformat(start_date), "Z", "/", isoformat(end_date), "Z" >>

\* range(start, stop)
range(start, stop) ==
    [ i \in 1..(IF stop > start THEN stop - start ELSE 0) |-> start + i - 1 ]

create_date_range_for_specific_period(start_year, end_year, start_month_range, end_month_range) ==
    LET year_bump == IF start_month_range > end_month_range THEN 1 ELSE 0
        range_end_year == end_year + 1 - year_bump
        years == range(start_year, range_end_year)
    IN  [ i \in DOMAIN years |->
            LET year == years[i]
                start_date == datetime(year, start_month_range, 1, 0, 0, 0)
                last_day == monthrange(year + year_bump, end_month_range)
                end_date == datetime(year + year_bump, end_month_range, last_day, 23, 59, 59)
            IN  DateRange(start_date, end_date) ]

CreateDateRange ==
    /\ period_pc = "ready"
    /\ period_ranges' = create_date_range_for_specific_period(
                            period.start_year, period.end_year,
                            period.start_month_range, period.end_month_range)
    /\ period_pc' = "done"
    /\ UNCHANGED << period, other_than_period >>

\* Years before a century year that is not a leap year, before one that is,
\* before an ordinary leap year, and that leap year itself.
PeriodYears == { 1899, 1999, 2019, 2020 }

InitPeriod ==
    \E y \in PeriodYears, n \in 0..MaxSpan, sm \in 1..12, em \in 1..12 :
        /\ period = [ start_year |-> y, end_year |-> y + n,
                      start_month_range |-> sm, end_month_range |-> em ]
        /\ period_ranges = << >>
        /\ period_pc = "ready"
        /\ PipelineIdle
        /\ AuxIdleExcept("period")

NextPeriod == CreateDateRange

SpecPeriod == InitPeriod /\ [][NextPeriod]_vars

\* ------------------------------------------- assert_dataset_time_dim_is_valid
\* np.timedelta64(5, "m")
FIVE_MIN == 5

\* pandas Index.is_monotonic_increasing: every element is >= the one before
is_monotonic_increasing(index) ==
    \A i \in 1..(Len(index) - 1) : index[i] <= index[i + 1]

\* pandas Index.is_unique
is_unique(index) ==
    \A i, j \in DOMAIN index : i # j => index[i] # index[j]

\* DataArray.diff(dim): element i + 1 minus element i
diff(index) == [ i \in 1..(Len(index) - 1) |-> index[i + 1] - index[i] ]

\* pd.date_range(start, end, freq="5min", inclusive="both")
date_range(start, end) ==
    { start + FIVE_MIN * k : k \in 0..((IF end >= start THEN end - start ELSE 0) \div FIVE_MIN) }
        \cap start..end

\* How a call ends: "returned", or the exception with the head of its message.
assert_dataset_time_dim_is_valid(dataset_time_dimension) ==
    LET difference_between_timesteps == diff(dataset_time_dimension)
    IN  IF ~is_monotonic_increasing(dataset_time_dimension)
        THEN "AssertionError: Time is not sorted ascending"
        ELSE IF ~is_unique(dataset_time_dimension)
        THEN "AssertionError: Duplicate timestamps present"
        ELSE IF \E i \in DOMAIN difference_between_timesteps :
                    difference_between_timesteps[i] # FIVE_MIN
        THEN "AssertionError: Non-5min gaps"
        ELSE IF dataset_time_dimension = << >>
        THEN "IndexError"               \* dataset_time_dimension.values[0]
        ELSE LET start == dataset_time_dimension[1]
                 end == dataset_time_dimension[Len(dataset_time_dimension)]
                 expected_index == date_range(start, end)
                 missing_indexes == expected_index \ Range(dataset_time_dimension)
             IN  IF Cardinality(missing_indexes) > 0
                 THEN "AssertionError: missing stamps"
                 ELSE "returned"

AssertTimeDim ==
    /\ time_outcome = "ready"
    /\ time_outcome' = assert_dataset_time_dim_is_valid(time_dimension)
    /\ UNCHANGED << time_dimension, other_than_time >>

TimeAxes == UNION { [ 1..n -> 0..MaxStamp ] : n \in 0..MaxAxis }

InitTime ==
    \E axis \in TimeAxes :
        /\ time_dimension = axis
        /\ time_outcome = "ready"
        /\ PipelineIdle
        /\ AuxIdleExcept("time")

NextTime == AssertTimeDim

SpecTime == InitTime /\ [][NextTime]_vars

\* --------------------------------------------------- clip_raster_with_polygon
\* _clip_process: max_retries = 3
clip_max_retries == 3

\* output_dir / f"{base_output_filename}_clipped_{polygon_id}.tif"
OutputFile(polygon_id) == << "_clipped_", polygon_id, ".tif" >>

NoClip == << >>     \* _clip_process returned None, or has not returned

\* workers = cpu_count(); if num_of_workers: workers = num_of_workers
ClipWorkers ==
    IF clip_args.num_of_workers # 0 THEN clip_args.num_of_workers ELSE clip_args.cpu_count

ClipRunning == { k \in DOMAIN clip_futures : clip_futures[k].state = "running" }

\* The head of the function: the raster is looked up, then one task per polygon
\* is submitted to the pool.
ClipSubmit ==
    /\ clip_pc = "ready"
    /\ IF ~clip_args.raster_exists
       THEN /\ path_list' = << >>
            /\ clip_pc' = "done"
            /\ UNCHANGED clip_futures
       ELSE /\ clip_futures' = [ k \in DOMAIN clip_args.failing_attempts |->
                                   [ state |-> "pending", attempt |-> 0, result |-> NoClip ] ]
            /\ clip_pc' = "clipping"
            /\ UNCHANGED path_list
    /\ UNCHANGED << clip_args, clip_results, other_than_clip >>

\* A free process of the pool takes the oldest pending task.
ClipBegin(k) ==
    /\ clip_pc = "clipping"
    /\ clip_futures[k].state = "pending"
    /\ \A j \in 1..(k - 1) : clip_futures[j].state # "pending"
    /\ Cardinality(ClipRunning) < ClipWorkers
    /\ clip_futures' = [ clip_futures EXCEPT ![k].state = "running", ![k].attempt = 1 ]
    /\ UNCHANGED << clip_args, clip_results, path_list, clip_pc, other_than_clip >>

\* One pass of the retry loop of _clip_process: the attempt writes the file and
\* returns the tuple, or raises and is retried until max_retries is reached.
ClipAttempt(k) ==
    /\ clip_pc = "clipping"
    /\ clip_futures[k].state = "running"
    /\ LET attempt == clip_futures[k].attempt
       IN  IF attempt > clip_args.failing_attempts[k]
           THEN clip_futures' = [ clip_futures EXCEPT
                                    ![k].state = "finished",
                                    ![k].result = << k, "polygon", OutputFile(k) >> ]
           ELSE IF attempt < clip_max_retries
           THEN clip_futures' = [ clip_futures EXCEPT ![k].attempt = attempt + 1 ]
           ELSE clip_futures' = [ clip_futures EXCEPT ![k].state = "finished" ]
    /\ UNCHANGED << clip_args, clip_results, path_list, clip_pc, other_than_clip >>

\* as_completed yields a finished future; its result joins the list.
ClipCollect(k) ==
    /\ clip_pc = "clipping"
    /\ clip_futures[k].state = "finished"
    /\ clip_futures' = [ clip_futures EXCEPT ![k].state = "collected" ]
    /\ clip_results' = Append(clip_results, clip_futures[k].result)
    /\ UNCHANGED << clip_args, path_list, clip_pc, other_than_clip >>

\* A selection that keeps a slot for every result, None included.
EveryResultPath(results) ==
    [ i \in DOMAIN results |-> IF results[i] # NoClip THEN results[i][3] ELSE NoClip ]

\* for result in results: if isinstance(result, tuple): path_list.append(result[2])
RECURSIVE PathsOf(_)
PathsOf(results) ==
    IF results = << >> THEN << >>
    ELSE IF Head(results) # NoClip
         THEN << Head(results)[3] >> \o PathsOf(Tail(results))
         ELSE PathsOf(Tail(results))

ClipReturn ==
    /\ clip_pc = "clipping"
    /\ \A k \in DOMAIN clip_futures : clip_futures[k].state = "collected"
    /\ path_list' = PathsOf(clip_results)
    /\ clip_pc' = "done"
    /\ UNCHANGED << clip_args, clip_futures, clip_results, other_than_clip >>

InitClip ==
    \E exists \in BOOLEAN, n \in 0..MaxClips, w \in 0..MaxWorkers, cpu \in 1..MaxCpus :
      \E failing \in [ 1..n -> 0..MaxFailing ] :
        /\ clip_args = [ raster_exists |-> exists, failing_attempts |-> failing,
                         num_of_workers |-> w, cpu_count |-> cpu ]
        /\ clip_futures = << >>
        /\ clip_results = << >>
        /\ path_list = << >>
        /\ clip_pc = "ready"
        /\ PipelineIdle
        /\ AuxIdleExcept("clip")

NextClip ==
    \/ ClipSubmit
    \/ \E k \in DOMAIN clip_futures : ClipBegin(k)
    \/ \E k \in DOMAIN clip_futures : ClipAttempt(k)
    \/ \E k \in DOMAIN clip_futures : ClipCollect(k)
    \/ ClipReturn

SpecClip == InitClip /\ [][NextClip]_vars

\* ------------------------------------------------ select_polygons_by_location
\* np.array_split(ary, sections): the first len % sections pieces hold one
\* element more than the others.
array_split(ary, sections) ==
    LET each == Len(ary) \div sections
        extras == Len(ary) % sections
        start(k) == (k - 1) * each + Smaller(k - 1, extras)
        size(k) == each + (IF k <= extras THEN 1 ELSE 0)
    IN  [ k \in 1..sections |-> SubSeq(ary, start(k) + 1, start(k) + size(k)) ]

\* gpd.sjoin(chunk, intersected_with, how="inner", predicate=...) against a
\* single polygon: the rows of the chunk that satisfy the predicate.
sjoin_inner(chunk) == SelectSeq(chunk, LAMBDA f : f \in location_args.intersecting)

\* The number the join function is handed as num_of_workers (0 stands for None).
JoinWorkersArgument ==
    IF revision = "legacy"
    THEN (IF location_args.num_of_workers # 0
          THEN location_args.num_of_workers ELSE location_args.cpu_count)
    ELSE location_args.num_of_workers

\* workers = cpu_count(); if num_of_workers: workers = num_of_workers; then the
\* call of the join function, up to the submission of one sjoin per chunk.
SelectPolygonsByLocation ==
    /\ location_pc = "ready"
    /\ IF JoinWorkersArgument = 0
       THEN /\ location_pc' = "TypeError"        \* np.array_split(frame, None)
            /\ UNCHANGED << location_workers, location_chunks, location_joined >>
       ELSE /\ location_workers' = JoinWorkersArgument
            /\ location_chunks' = array_split(location_args.select_features_from,
                                              JoinWorkersArgument)
            /\ location_joined' = [ k \in 1..JoinWorkersArgument |-> [ done |-> FALSE, rows |-> << >> ] ]
            /\ location_pc' = "joining"
    /\ UNCHANGED << location_args, location_result, other_than_location >>

\* One process of the pool joins one chunk.
JoinChunk(k) ==
    /\ location_pc = "joining"
    /\ ~location_joined[k].done
    /\ location_joined' = [ location_joined EXCEPT
                              ![k] = [ done |-> TRUE, rows |-> sjoin_inner(location_chunks[k]) ] ]
    /\ UNCHANGED << location_args, location_workers, location_chunks, location_result,
                    location_pc, other_than_location >>

\* pd.concat of the results in the order of the futures, then the column filter.
SelectReturn ==
    /\ location_pc = "joining"
    /\ \A k \in DOMAIN location_joined : location_joined[k].done
    /\ location_result' = Flatten([ k \in DOMAIN location_joined |-> location_joined[k].rows ])
    /\ location_pc' = "done"
    /\ UNCHANGED << location_args, location_workers, location_chunks, location_joined,
                    other_than_location >>

InitLocation ==
    \E rev \in { "current", "legacy" }, n \in 0..MaxLen, w \in 0..MaxWorkers,
       cpu \in 1..MaxCpus :
      \E hit \in SUBSET (1..n) :
        /\ location_args = [ select_features_from |-> [ i \in 1..n |-> i ],
                             intersecting |-> hit,
                             num_of_workers |-> w, cpu_count |-> cpu ]
        /\ location_workers = 0
        /\ location_chunks = << >>
        /\ location_joined = << >>
        /\ location_result = << >>
        /\ location_pc = "ready"
        /\ PipelineIdleAt(rev)
        /\ AuxIdleExcept("location")

NextLocation ==
    \/ SelectPolygonsByLocation
    \/ \E k \in DOMAIN location_joined : JoinChunk(k)
    \/ SelectReturn

SpecLocation == InitLocation /\ [][NextLocation]_vars

\* ------------------------------------------- one StacSearch, called directly
\* The instance the calls below are made on.
TheClient == client[SharedClient]

Called(name, value, exception) ==
    /\ stac_call' = [ name |-> name, returned |-> value, raised |-> exception ]
    /\ stac_calls' = stac_calls + 1
    /\ UNCHANGED other_than_stac

\* StacSearch.search with a query for tile t and date range d: every attempt
\* of the loop runs, items is what the last one answered, and the APIError of
\* the last attempt is raised again.
StacSearchCall(t, d, last_attempt_fails) ==
    /\ stac_calls < MaxCalls
    /\ IF last_attempt_fails
       THEN /\ UNCHANGED client
            /\ Called("search", << >>, TRUE)
       ELSE /\ client' = [ client EXCEPT ![SharedClient].search_results = Catalog(t, d) ]
            /\ Called("search", Catalog(t, d), FALSE)

\* StacSearch.search_for_date_ranges with a query for tile t over the first n
\* date ranges: three passes, pass i answering up to the query that fails
\* (fail_at[i], 0 = none), all of them extending the one list results.
StacSearchForDateRanges(t, n, fail_at) ==
    /\ stac_calls < MaxCalls
    /\ LET answered(i) == IF fail_at[i] = 0 THEN n ELSE fail_at[i] - 1
           results == Batches(t, answered(1)) \o Batches(t, answered(2))
                        \o Batches(t, answered(3))
       IN  IF fail_at[max_retries] # 0
           THEN /\ UNCHANGED client
                /\ Called("search_for_date_ranges", << >>, TRUE)
           ELSE /\ client' = [ client EXCEPT ![SharedClient].search_results = results ]
                /\ Called("search_for_date_ranges", results, FALSE)

\* StacSearch.sort_results_by_cloud_coverage
StacSort ==
    /\ stac_calls < MaxCalls
    /\ IF Truthy(TheClient.search_results)
       THEN /\ client' = [ client EXCEPT ![SharedClient].cloud_cover_sorted_results =
                                           sorted(TheClient.search_results) ]
            /\ Called("sort_results_by_cloud_coverage", sorted(TheClient.search_results), FALSE)
       ELSE /\ UNCHANGED client
            /\ Called("sort_results_by_cloud_coverage", << >>, FALSE)

\* StacSearch.filter_no_data
StacFilter ==
    /\ stac_calls < MaxCalls
    /\ LET resorted == ~Truthy(TheClient.cloud_cover_sorted_results)
                         /\ Truthy(TheClient.search_results)
           sorted_results == IF Truthy(TheClient.cloud_cover_sorted_results)
                             THEN TheClient.cloud_cover_sorted_results
                             ELSE IF resorted THEN sorted(TheClient.search_results)
                             ELSE << >>
           filtered_results == FilterItems(sorted_results, max_no_data_value)
       IN  IF ~Truthy(sorted_results)
           THEN /\ UNCHANGED client
                /\ Called("filter_no_data", << >>, FALSE)
           ELSE /\ client' = [ client EXCEPT
                                 ![SharedClient].cloud_cover_sorted_results = sorted_results,
                                 ![SharedClient].filtered_results = filtered_results ]
                /\ Called("filter_no_data", filtered_results, FALSE)

InitStac ==
    /\ PipelineIdle
    /\ AuxIdle

NextStac ==
    \/ \E t \in { "T1", "T2" }, d \in 1..MaxRanges, fails \in BOOLEAN :
          StacSearchCall(t, d, fails)
    \/ \E t \in { "T1", "T2" }, n \in 1..MaxRanges :
          \E fail_at \in [ 1..max_retries -> 0..n ] : StacSearchForDateRanges(t, n, fail_at)
    \/ StacSort
    \/ StacFilter

SpecStac == InitStac /\ [][NextStac]_vars

\* -------------------------- BestProductsForFeatures.find_best_complete_products
\* def find_best_complete_products(self, max_cloud_cover=None, max_no_data_value=5)
default_max_no_data_value == 5

\* An argument left out of a call.
NotGiven == NoneFloat

\* Thresholds an instance is configured, or a call is made, with.
Thresholds == { 0, 2, 5, 8 }

\* "if x:" on an int-or-None value
TruthyNumber(x) == x # NoneFloat /\ x # 0

\* The max_cloud_cover setter
SetMaxCloudCover(value) ==
    /\ products' = [ products EXCEPT !.max_cloud_cover = value ]
    /\ UNCHANGED << products_call, other_than_products >>

\* find_best_complete_products down to the executor.submit of every tile search
\* in find_best_product_per_s2_tile: the two thresholds each search is handed.
FindBestCompleteProducts(cloud_cover_argument, no_data_argument) ==
    LET max_cloud_cover_parameter == cloud_cover_argument     \* None when left out
        max_no_data_value_parameter ==
            IF no_data_argument = NotGiven
            THEN default_max_no_data_value ELSE no_data_argument
        cloud_cover == IF TruthyNumber(max_cloud_cover_parameter)
                       THEN max_cloud_cover_parameter ELSE products.max_cloud_cover
        no_data_value == IF TruthyNumber(max_no_data_value_parameter)
                         THEN max_no_data_value_parameter ELSE products.max_no_data_value
        sentinel2_tile_list == << "T1", "T2" >>
    IN  /\ products_call' =
              [ called |-> TRUE,
                max_cloud_cover |-> cloud_cover_argument,
                max_no_data_value |-> no_data_argument,
                searches |-> [ i \in DOMAIN sentinel2_tile_list |->
                                 [ tile_id |-> sentinel2_tile_list[i],
                                   max_cloud_cover |-> cloud_cover,
                                   max_no_data_value |-> no_data_value ] ] ]
        /\ UNCHANGED << products, other_than_products >>

\* BestProductsForFeatures(..., max_cloud_cover, max_no_data_value)
InitProducts ==
    \E cloud \in Thresholds, no_data \in Thresholds :
        /\ products = [ max_cloud_cover |-> cloud, max_no_data_value |-> no_data ]
        /\ products_call = NoCall
        /\ PipelineIdle
        /\ AuxIdleExcept("products")

NextProducts ==
    \/ \E value \in Thresholds : SetMaxCloudCover(value)
    \/ \E cloud \in Thresholds \cup { NotGiven }, no_data \in Thresholds \cup { NotGiven } :
          FindBestCompleteProducts(cloud, no_data)

SpecProducts == InitProducts /\ [][NextProducts]_vars

\* ================================================================ claims
Count(list, x) == Cardinality({ i \in DOMAIN list : list[i] = x })

IsProduct(id) == TileOf(id) # None

\* C1: whenever find_best_product_per_s2_tile returns, every submitted tile id
\* is in exactly one of the keys of the successful dictionary, the incomplete
\* list and the error list (once), the buckets hold nothing but submitted
\* tiles, and the successful dictionary holds only tiles whose search returned
\* a product, under the id that search returned.
C1_BucketsPartitionTiles ==
    main_pc = "returned" =>
        /\ \A t \in Range(s2_tile_grid_list) :
              (IF t \in DOMAIN returned.successful THEN 1 ELSE 0)
                  + Count(returned.incomplete, t) + Count(returned.error, t) = 1
        /\ (DOMAIN returned.successful) \cup Range(returned.incomplete)
               \cup Range(returned.error) \subseteq Range(s2_tile_grid_list)
        /\ \A t \in DOMAIN returned.successful :
              /\ future[t].state = "finished"
              /\ IsProduct(future[t].result.id)
              /\ returned.successful[t].id = future[t].result.id

\* C1 witness: the resolver returned, after a retried catalog failure, with
\* T1 in the dictionary and T2 in the incomplete list.
C1_Witness ==
    /\ main_pc = "returned"
    /\ failures > 0
    /\ Len(s2_tile_grid_list) = 2
    /\ "T1" \in DOMAIN returned.successful
    /\ returned.incomplete = << "T2" >>

\* C2: a tile search that failed does not abort the resolution: the caller
\* never leaves through an exception, and a tile whose search failed is in the
\* error list once its future was consumed.
C2_FailureDoesNotAbort ==
    /\ main_pc # "raised"
    /\ \A t \in yielded : future[t].state = "raised" => t \in Range(error_results)

\* C3: a tile search whose every catalog query raised makes max_retries
\* attempts and then ends with a returned tuple that starts with "error:".
C3_ExhaustedRetriesReturnError ==
    \A t \in Tiles :
        ( /\ search[t].pc # "attempt"
          /\ search[t].raises = max_retries
          /\ search[t].queries = search[t].raises )
        => /\ search[t].attempt = max_retries
           /\ future[t].state = "finished"
           /\ StartsWith(future[t].result.id, "error:")

\* C4: whatever the interleaving, the product recorded for a tile is one of
\* the products its own query returned.
C4_OwnResultsOnly ==
    \A t \in Tiles :
        (future[t].state = "finished" /\ BucketOf(future[t].result) = "successful")
        => TileOf(future[t].result.id) = t

\* The candidates whose no-data percentage is strictly below the threshold.
Below(candidates) == { i \in DOMAIN candidates : candidates[i].nd < max_no_data_value }

\* Candidate i comes first in ascending cloud-cover order, catalog order
\* breaking ties, among the candidates below the threshold.
IsFirstBest(candidates, i) ==
    /\ i \in Below(candidates)
    /\ \A j \in Below(candidates) \ {i} :
          \/ candidates[i].cc < candidates[j].cc
          \/ candidates[i].cc = candidates[j].cc /\ i < j

Returns(t) == future[t].state = "running" /\ future'[t].state # "running"

C7_OneQueryPerDateRange ==
    \A t \in Tiles :
        (search[t].pc = "sort" /\ search[t].raises = 0)
        => search[t].queries = Len(date_ranges)

\* C8: the list search_for_date_ranges returns is the concatenation, in
\* date-range order, of one result batch per date range.
C8_OneBatchPerDateRange ==
    \A t \in Tiles :
        (revision = "current" /\ search[t].pc = "sort")
        => client[ClientOf(t)].search_results = Batches(t, Len(date_ranges))

\* C9: search_for_date_ranges raises only when every attempt failed.
C9_RaiseOnlyWhenAllFailed ==
    \A t \in Tiles : search[t].pc = "raised" => search[t].passes = 0

\* C10: a fine polygon with a covering tile that is absent from the index gets
\* None, whatever the other covering tiles have.
C10_PartialCoverageGivesNone ==
    write_pc = "done" =>
        \A i \in DOMAIN spatial_join_results :
            (\E j \in DOMAIN spatial_join_results[i].s2_tiles :
                 spatial_join_results[i].s2_tiles[j] \notin DOMAIN returned.successful)
            => spatial_join_results[i].best_s2_product_id = None

\* C10 witness: a polygon covered by T1 and T2, only T1 in the index, got None.
C10_Witness ==
    /\ write_pc = "done"
    /\ \E i \in DOMAIN spatial_join_results :
          /\ spatial_join_results[i].s2_tiles = << "T1", "T2" >>
          /\ "T1" \in DOMAIN returned.successful
          /\ "T2" \notin DOMAIN returned.successful
          /\ spatial_join_results[i].best_s2_product_id = None

\* C11: a polygon whose covering tiles are all in the index gets, when there
\* are several, the product of the covering tile with the numerically least
\* cloud_cover, the first such tile of its list on a tie; when there is one,
\* the product of that tile.
C11_LeastCloudCoverFirstOnTies ==
    write_pc = "done" =>
        \A i \in DOMAIN spatial_join_results :
            LET T  == spatial_join_results[i].s2_tiles
                cc == [ t \in DOMAIN returned.successful |->
                          returned.successful[t].cloud_cover ]
            IN  (T # << >> /\ \A j \in DOMAIN T : T[j] \in DOMAIN returned.successful)
                => \E b \in DOMAIN T :
                      /\ \A j \in DOMAIN T : cc[T[b]] <= cc[T[j]]
                      /\ \A j \in 1..(b - 1) : cc[T[j]] > cc[T[b]]
                      /\ spatial_join_results[i].best_s2_product_id =
                             returned.successful[T[b]].id

\* C11 witness: one polygon whose two covering tiles tie got the product of
\* the first, another got the product of its second tile, the clearer one.
C11_Witness ==
    /\ write_pc = "done"
    /\ \E i, k \in DOMAIN spatial_join_results :
          LET T == spatial_join_results[i].s2_tiles
              U == spatial_join_results[k].s2_tiles
          IN  /\ Len(T) = 2 /\ Len(U) = 2
              /\ Range(T) \cup Range(U) \subseteq DOMAIN returned.successful
              /\ returned.successful[T[1]].cloud_cover = returned.successful[T[2]].cloud_cover
              /\ spatial_join_results[i].best_s2_product_id = ProductOf(T[1])
              /\ returned.successful[U[2]].cloud_cover < returned.successful[U[1]].cloud_cover
              /\ spatial_join_results[k].best_s2_product_id = ProductOf(U[2])

\* C12: a polygon with an empty covering list is mapped to None: the
\* propagation returns normally and raises no error.
C12_EmptyListGivesNone ==
    (write_pc # "ready" /\ \E i \in DOMAIN spatial_join_results :
                              spatial_join_results[i].s2_tiles = << >>)
    => /\ write_pc = "done"
       /\ \A i \in DOMAIN spatial_join_results :
             spatial_join_results[i].s2_tiles = << >>
             => spatial_join_results[i].best_s2_product_id = None

\* The rows of the result that stand for the fine polygon numbered v.
ResultRowsOf(v) == { r \in DOMAIN features.rows : features.rows[r].vector_id = v }

\* C14: the result of spatial_join_within has exactly one row per fine polygon
\* of the input, none missing and none duplicated, whether the polygon
\* matches zero, one or several coarse polygons, and each row carries a list
\* in the covering-tile column.
C14_OneRowPerFinePolygon ==
    join_pc = "done" =>
        /\ Len(features.rows) = Len(vector_features.rows)
        /\ \A i \in DOMAIN vector_features.rows :
              /\ Cardinality(ResultRowsOf(vector_features.rows[i].vector_id)) = 1
              /\ \A r \in ResultRowsOf(vector_features.rows[i].vector_id) :
                    features.rows[r].geometry = vector_features.rows[i].geometry
        /\ \A r \in DOMAIN features.rows :
              /\ vector_column_name \in DOMAIN features.rows[r]
              /\ features.rows[r][vector_column_name] \in Seq(Tiles \cup { NaN })

\* C14 witness: of two fine polygons one matched two coarse polygons and the
\* other none, and the result has one row for each.
C14_Witness ==
    /\ join_pc = "done"
    /\ Len(vector_features.rows) = 2
    /\ Len(features.rows) = 2
    /\ Len(features.rows[1][vector_column_name]) = 2
    /\ \A p \in DOMAIN polygon_features.rows :
          ~Satisfies(predicate, vector_features.rows[2].geometry,
                     polygon_features.rows[p].geometry)

\* C15: a fine polygon that satisfies the join predicate with no coarse
\* polygon is kept and has an empty list in the covering-tile column.
C15_NoMatchGivesEmptyList ==
    join_pc = "done" =>
        \A i \in DOMAIN vector_features.rows :
            (\A p \in DOMAIN polygon_features.rows :
                 ~Satisfies(predicate, vector_features.rows[i].geometry,
                            polygon_features.rows[p].geometry))
            => \E r \in ResultRowsOf(vector_features.rows[i].vector_id) :
                   features.rows[r][vector_column_name] = << >>

\* Every point of a is a point of b (the rectangles have integer corners).
LiesEntirelyWithin(a, b) ==
    \A x \in a.minx..a.maxx, y \in a.miny..a.maxy :
        /\ b.minx <= x /\ x <= b.maxx
        /\ b.miny <= y /\ y <= b.maxy

\* C16: with the predicate "within", the list of a fine polygon holds the
\* name of coarse polygon p exactly when the fine polygon lies entirely within
\* p: a polygon that only partly overlaps p, or lies outside every coarse
\* polygon, is assigned no coarse polygon name.
C16_ListHoldsExactlyTheContainingPolygons ==
    (join_pc = "done" /\ predicate = "within") =>
        \A r \in DOMAIN features.rows, p \in DOMAIN polygon_features.rows :
            (polygon_features.rows[p][polygon_column] \in Range(features.rows[r][vector_column_name]))
            <=> LiesEntirelyWithin(features.rows[r].geometry, polygon_features.rows[p].geometry)

\* C16 witness: under "within" one fine polygon lies in two coarse polygons
\* and has both names, another reaches across the edge of a coarse polygon
\* and has no name.
C16_Witness ==
    /\ join_pc = "done"
    /\ predicate = "within"
    /\ Len(features.rows) = 2
    /\ features.rows[1][vector_column_name] = << "T1", "T2" >>
    /\ \E p \in DOMAIN polygon_features.rows :
          /\ Overlapping(features.rows[2].geometry, polygon_features.rows[p].geometry)
          /\ ~LiesEntirelyWithin(features.rows[2].geometry, polygon_features.rows[p].geometry)
    /\ Range(features.rows[2][vector_column_name]) \cap Tiles = {}

\* C17: spatial_join_within leaves both inputs unchanged: the frames passed
\* as vector_features and polygon_features have the same columns and values
\* after the call as before it.
C17_InputsUnchanged ==
    [][ /\ vector_features' = vector_features
        /\ polygon_features' = polygon_features ]_vars

Started == { "running", "finished", "raised" }

\* C18: while find_best_product_per_s2_tile runs, at most num_of_workers tile
\* searches are in flight, and exactly one search is started per tile id of
\* the input list: a search starts only for a submitted tile that has none
\* yet, a tile whose search started never gets another, no search starts for
\* a tile outside the list, and when the resolver returns the search of
\* every tile of the list has run.
C18_BoundedInFlightOneSearchPerTile ==
    /\ [](Cardinality(Running) <= num_of_workers)
    /\ [](\A t \in Tiles \ Range(s2_tile_grid_list) : future[t].state = "none")
    /\ [](main_pc = "returned" =>
             \A t \in Range(s2_tile_grid_list) : future[t].state = "finished")
    /\ [][ \A t \in Tiles :
             /\ (future[t].state # "running" /\ future'[t].state = "running")
                => (future[t].state = "pending" /\ t \in Range(s2_tile_grid_list))
             /\ future[t].state \in Started => future'[t].state \in Started
             /\ future[t].state \in { "finished", "raised" }
                => future'[t].state = future[t].state ]_vars

\* C18 witness: with one worker and two tiles, one search is in flight and
\* the other waits for the worker.
C18_Witness ==
    /\ num_of_workers = 1
    /\ Len(s2_tile_grid_list) = 2
    /\ Cardinality(Running) = 1
    /\ \E t \in Range(s2_tile_grid_list) : future[t].state = "pending"

\* The preconditions of the grid construction: a box with a positive extent
\* on both axes (the cell size is positive in every call).
ValidBox == bounding_box[1] < bounding_box[3] /\ bounding_box[2] < bounding_box[4]

ExtentX == bounding_box[3] - bounding_box[1]
ExtentY == bounding_box[4] - bounding_box[2]

\* C19: for a bounding box whose two extents are multiples of the cell size,
\* create_vector_grid makes (extent_x / size) * (extent_y / size) cells and
\* the total bounds of the cells are the bounding box.
C19_EvenGridCoversTheBox ==
    (grid_pc = "done" /\ ValidBox /\ ExtentX % grid_size = 0 /\ ExtentY % grid_size = 0)
    => /\ Len(grid.rows) = (ExtentX \div grid_size) * (ExtentY \div grid_size)
       /\ total_bounds(grid) = bounding_box

\* C19 witness: a 4 by 2 box cut into two cells of size 2.
C19_Witness ==
    /\ grid_pc = "done"
    /\ bounding_box = << 0, 0, 4, 2 >>
    /\ grid_size = 2
    /\ Len(grid.rows) = 2
    /\ total_bounds(grid) = << 0, 0, 4, 2 >>

\* The bounds of a cell as (minx, miny, maxx, maxy); axis 1 is the
\* longitude, axis 2 the latitude.
CellBounds(g) == << g.minx, g.miny, g.maxx, g.maxy >>
Extent(axis) == bounding_box[axis + 2] - bounding_box[axis]

\* The cell start coordinates on an axis.
Starts(axis) == { CellBounds(grid.rows[i].geometry)[axis] : i \in DOMAIN grid.rows }

\* The half-open stepping: start, start + size, ... strictly below stop.
HalfOpenStarts(axis) ==
    Starts(axis) = { x \in bounding_box[axis]..(bounding_box[axis + 2] - 1) :
                       (x - bounding_box[axis]) % grid_size = 0 }

C21_InvalidBoundsRaise ==
    (grid_pc # "ready" /\ ~ValidBox) => grid_pc = "InvalidBoundsError"

\* C22: every grid the construction returns carries one generated identifier
\* per cell, and the identifiers are pairwise distinct, for every worker count.
C22_OneDistinctIdPerCell ==
    grid_pc = "done" =>
        /\ HasColumn(grid, "feature_id")
        /\ \A i, j \in DOMAIN grid.rows :
              i # j => grid.rows[i].feature_id # grid.rows[j].feature_id

\* The chunks in which the coordinate pair at place i of the flattened
\* sequence lies (the pairs of one grid are pairwise different).
ChunksHolding(i) == { k \in DOMAIN chunks : FlatCoords[i] \in Range(chunks[k]) }

\* C27: for a box and a cell size that give at least one cell and a worker
\* count of at least 1, create_vector_grid_parallel cuts the flattened
\* coordinate pairs into contiguous chunks that together are the whole
\* sequence, every pair in exactly one chunk, and returns the polygons of the
\* sequential create_vector_grid in the same order; the call does not fail.
C27_ParallelGridEqualsSequential ==
    ValidBox =>
        /\ grid_pc \in { "ready", "mapping", "done" }
        /\ grid_pc \in { "mapping", "done" } =>
              /\ Flatten(chunks) = FlatCoords
              /\ \A k \in DOMAIN chunks : chunks[k] # << >>
              /\ \A i \in DOMAIN FlatCoords : Cardinality(ChunksHolding(i)) = 1
        /\ grid_pc = "done" => grid = create_vector_grid(revision, bounding_box, grid_size)

\* C27 witness: a grid of three cells or more was built from two chunks.
C27_Witness ==
    /\ grid_pc = "done"
    /\ Len(chunks) = 2
    /\ Len(grid.rows) >= 3
    /\ grid = create_vector_grid(revision, bounding_box, grid_size)


\* Gregorian leap years, and the last calendar day of a month.
LeapYear(y) == y % 400 = 0 \/ (y % 4 = 0 /\ y % 100 # 0)

LastCalendarDay(y, m) ==
    CASE m = 2 -> (IF LeapYear(y) THEN 29 ELSE 28)
      [] m \in { 4, 6, 9, 11 } -> 30
      [] OTHER -> 31

PeriodCrossesYear == period.start_month_range > period.end_month_range

FiveMinuteSteps ==
    \A i \in 1..(Len(time_dimension) - 1) :
        time_dimension[i + 1] - time_dimension[i] = 5

\* The first condition the axis violates, in the order sorted, unique, gapless.
FirstViolation ==
    IF \E i \in 1..(Len(time_dimension) - 1) : time_dimension[i] > time_dimension[i + 1]
    THEN "AssertionError: Time is not sorted ascending"
    ELSE IF \E i \in 1..(Len(time_dimension) - 1) : time_dimension[i] = time_dimension[i + 1]
    THEN "AssertionError: Duplicate timestamps present"
    ELSE "AssertionError: Non-5min gaps"

\* C24: assert_dataset_time_dim_is_valid returns normally if and only if the
\* time axis is strictly increasing with every consecutive difference exactly
\* 5 minutes; otherwise it raises AssertionError, reporting the first violated
\* condition in the order: not sorted ascending, then duplicate timestamps,
\* then a non-5-minute gap.
C24_ReturnsIffFiveMinuteSteps ==
    time_outcome \notin { "idle", "ready" } =>
        /\ time_outcome = "returned" <=> FiveMinuteSteps
        /\ ~FiveMinuteSteps => time_outcome = FirstViolation


\* The polygons of the layer whose clip succeeds within the three attempts.
ClippedPolygons ==
    { k \in DOMAIN clip_args.failing_attempts : clip_args.failing_attempts[k] < 3 }

\* C25: clip_raster_with_polygon returns exactly one output path per polygon
\* whose clip succeeded within its 3 attempts (so as many paths as polygons
\* when every clip succeeds); a polygon whose clip fails on all 3 attempts is
\* omitted without aborting the clips of the others; a raster path that does
\* not exist yields an empty list.
C25_OnePathPerClippedPolygon ==
    /\ clip_pc \in { "idle", "ready", "clipping", "done" }
    /\ clip_pc = "done" =>
         IF clip_args.raster_exists
         THEN /\ Len(path_list) = Cardinality(ClippedPolygons)
              /\ \A k \in ClippedPolygons :
                     Cardinality({ i \in DOMAIN path_list : path_list[i] = OutputFile(k) }) = 1
              /\ \A k \in DOMAIN clip_futures : clip_futures[k].state = "collected"
         ELSE path_list = << >>

\* One polygon failed on all three attempts and another was clipped on a retry.
C25_Witness ==
    /\ clip_pc = "done"
    /\ clip_args.raster_exists
    /\ \E k \in DOMAIN clip_args.failing_attempts : clip_args.failing_attempts[k] >= 3
    /\ \E k \in ClippedPolygons : clip_args.failing_attempts[k] > 0
    /\ Len(path_list) = 1


\* C26: called without num_of_workers, select_polygons_by_location executes
\* the spatial join with cpu_count() workers; called with num_of_workers, it
\* executes the join with that number of workers.
C26_JoinRunsWithTheDocumentedWorkers ==
    location_pc \notin { "idle", "ready" } =>
        /\ location_pc \in { "joining", "done" }
        /\ location_workers = (IF location_args.num_of_workers = 0
                               THEN location_args.cpu_count
                               ELSE location_args.num_of_workers)


\* C28: with queries that eventually return or fail and fairly scheduled
\* workers, every tile search ends after at most max_retries attempts, sleeping
\* only between attempts and never after the last; every submitted tile is
\* eventually aggregated and find_best_product_per_s2_tile eventually returns;
\* the buckets are built by the aggregating loop only, from completed searches.
C28_SearchesEndAndResolverReturns ==
    /\ [](\A t \in Tiles :
            /\ search[t].attempt <= 3
            /\ search[t].sleeps <= 2
            /\ search[t].pc = "attempt" => search[t].sleeps < search[t].attempt)
    /\ [](\A t \in Tiles :
            (t \in Range(error_results) \cup Range(incomplete_results)
               \/ (t \in DOMAIN successful_results /\ successful_results[t] # Blank))
            => (t \in yielded /\ future[t].state = "finished"))
    /\ \A t \in Tiles : [](future[t].state = "pending" => <>(t \in yielded))
    /\ <>(main_pc = "returned")


\* C29: after any sequence of calls to search, search_for_date_ranges,
\* sort_results_by_cloud_coverage and filter_no_data on one StacSearch, what
\* sort_results_by_cloud_coverage or filter_no_data returns (and stores in
\* cloud_cover_sorted_results / filtered_results) holds only items of the most
\* recent search's search_results: results of an earlier search are never
\* sorted, filtered or returned once a newer search has run.
C29_OnlyItemsOfTheLatestSearch ==
    stac_call.name \in { "sort_results_by_cloud_coverage", "filter_no_data" } =>
        Range(stac_call.returned) \subseteq Range(TheClient.search_results)


\* C30: find_best_complete_products called without arguments hands every tile
\* search the thresholds the instance is configured with (max_no_data_value
\* and max_cloud_cover from the constructor or the max_cloud_cover property);
\* an argument given to the call takes their place, for that call only.
C30_CallUsesConfiguredThresholds ==
    [][products_call' # products_call =>
          /\ products' = products
          /\ \A i \in DOMAIN products_call'.searches :
                /\ products_call'.searches[i].max_cloud_cover =
                       (IF products_call'.max_cloud_cover = NotGiven
                        THEN products.max_cloud_cover ELSE products_call'.max_cloud_cover)
                /\ products_call'.searches[i].max_no_data_value =
                       (IF products_call'.max_no_data_value = NotGiven
                        THEN products.max_no_data_value
                        ELSE products_call'.max_no_data_value)]_vars

====
